---------------------------- MODULE Spec2Model ----------------------------
(***************************************************************************)
(* Public Mood Radar: the signal pipeline.                                 *)
(*                                                                         *)
(*   - the Dedup Engine (dedupeSnippets / dedupeSignals),                  *)
(*   - the streaming five-stage orchestrator (app/api/reason/route.ts),    *)
(*   - the retrieval and classification endpoints,                         *)
(*   - the two-stage client (runAnalysis / retryReason) with the single    *)
(*     persisted AnalysisSnapshot shared by every tab of a browser.        *)
(*                                                                         *)
(* Texts the code inspects piece by piece are sequences: titles and bodies  *)
(* are sequences of one-character strings, urls are sequences of chunks    *)
(* ("https://", "x.com", "/", "1").  Labels and messages, which the code   *)
(* only compares or tests for emptiness, are TLA+ strings.                 *)
(***************************************************************************)
EXTENDS Integers, Sequences, FiniteSets, TLC

VARIABLES
    \* ---- Dedup Engine harness
    dVariant,     \* which dedup function is applied: "snippets" | "signals"
    dIn,          \* the input sequence of signals
    dOut,         \* dedup(dIn)
    dOut2,        \* dedup(dOut)
    dpc           \* "input" | "once" | "twice"

dedupVars == <<dVariant, dIn, dOut, dOut2, dpc>>

VARIABLES
    \* ---- process configuration (process.env), fixed for a deployment
    env,          \* [perplexityKey, minoConfigured : BOOLEAN]
    \* ---- streaming pipeline, one entry per request
    sPc,          \* "idle" | "rejected" | "awaitA" | "awaitC" | "awaitD" | "awaitE" | "closed"
    sResponse,    \* what POST returned: nothing yet, the stream, or a JSON error
    sEvents,      \* the StageEvents enqueued on the request's stream, in order
    sCloses       \* how many times controller.close() ran

streamVars == <<sPc, sResponse, sEvents, sCloses>>

VARIABLES
    \* ---- retrieval and classification endpoints
    apiExchange   \* the last request served: endpoint, provider reply, response

VARIABLES
    \* ---- two-stage client: one Home component per browser tab
    store,        \* localStorage["pmr-last-run"], shared by the tabs
    loading,      \* per tab: the loading flag
    progress,     \* per tab: the progress messages (the stream state)
    analysis,     \* per tab: the AnalysisResult shown, if any
    errorState,   \* per tab: the ErrorState shown, if any
    lastSnippets, \* per tab: the signal set of the last successful retrieval
    abortRef,     \* per tab: abortControllerRef.current, as the run owning it
    lastSnapshot, \* per tab: the memoized lastSnapshot of the latest render
    runs,         \* every run started so far: its tab, position and locals
    nextRun,      \* number of runs started
    clock         \* Date.now(), as the number of analyses completed

clientVars == <<store, loading, progress, analysis, errorState, lastSnippets,
                abortRef, lastSnapshot, runs, nextRun, clock>>

VARIABLES
    \* ---- pure functions checked on their own
    call          \* the last call made: function, arguments, result

vars == <<dedupVars, env, streamVars, apiExchange, clientVars, call>>

---------------------------------------------------------------------------
(* Bounds *)

MaxSignals == 3        \* longest signal sequence handed to the Dedup Engine
MaxRequests == 1       \* concurrent requests to the streaming endpoint
MaxRuns == 3           \* runs (full analyses and retries) started over all tabs
MaxTitleLen == 3       \* characters of a title handed to similarityScore
MaxFill == 13          \* full-size signals at the head of a budgeted list
MaxTail == 2           \* signals of mixed sizes that follow them

---------------------------------------------------------------------------
(* Each component at rest: the other components' variables when one        *)
(* component is checked on its own.                                        *)

DedupIdle ==
    /\ dVariant = "snippets"
    /\ dIn = <<>>
    /\ dOut = <<>>
    /\ dOut2 = <<>>
    /\ dpc = "input"

EnvFixed == env = [perplexityKey |-> TRUE, minoConfigured |-> TRUE]

ApiIdle == apiExchange = [endpoint |-> "none"]

NoCall == [fn |-> "none"]

CallIdle == call = NoCall

Tabs == {"tabA", "tabB"}

\* concurrent records whether any other run, of any tab, was in flight at
\* some moment of this run
NoRun == [tab |-> "none", kind |-> "none", pc |-> "unused", aborted |-> FALSE,
          concurrent |-> FALSE,
          seen |-> [present |-> FALSE], snippets |-> <<>>,
          response |-> [status |-> 0, body |-> [none |-> TRUE]]]

Nothing == [present |-> FALSE]

ClientIdle ==
    /\ store = [kind |-> "absent"]
    /\ loading = [t \in Tabs |-> FALSE]
    /\ progress = [t \in Tabs |-> <<>>]
    /\ analysis = [t \in Tabs |-> Nothing]
    /\ errorState = [t \in Tabs |-> Nothing]
    /\ lastSnippets = [t \in Tabs |-> <<>>]
    /\ abortRef = [t \in Tabs |-> 0]
    /\ lastSnapshot = [t \in Tabs |-> Nothing]
    /\ runs = [r \in 1..MaxRuns |-> NoRun]
    /\ nextRun = 0
    /\ clock = 0

StreamIdle ==
    /\ sPc = [r \in 1..MaxRequests |-> "idle"]
    /\ sResponse = [r \in 1..MaxRequests |-> [kind |-> "none"]]
    /\ sEvents = [r \in 1..MaxRequests |-> <<>>]
    /\ sCloses = [r \in 1..MaxRequests |-> 0]

---------------------------------------------------------------------------
(* Titles: sequences of characters *)

Blank == " "

\* String.prototype.toLowerCase on the characters of the model's alphabet
toLowerCase(c) ==
    CASE c = "A" -> "a"
      [] c = "B" -> "b"
      [] c = "X.com" -> "x.com"
      [] c = "Twitter.com" -> "twitter.com"
      [] OTHER -> c

\* the class [a-z0-9\s] of the first replace in normalizeTitle
IsWordOrSpace(c) == c \in {"a", "b", Blank}

RECURSIVE collapseSpaces(_)
\* .replace(/\s+/g, " "): every run of whitespace becomes one blank
collapseSpaces(s) ==
    IF Len(s) < 2 THEN s
    ELSE IF Head(s) = Blank /\ s[2] = Blank
         THEN collapseSpaces(Tail(s))
         ELSE <<Head(s)>> \o collapseSpaces(Tail(s))

RECURSIVE trimLeft(_)
trimLeft(s) ==
    IF s # <<>> /\ Head(s) = Blank THEN trimLeft(Tail(s)) ELSE s

RECURSIVE trimRight(_)
trimRight(s) ==
    IF s # <<>> /\ s[Len(s)] = Blank
    THEN trimRight(SubSeq(s, 1, Len(s) - 1))
    ELSE s

\* String.prototype.trim
trim(s) == trimRight(trimLeft(s))

\* normalizeTitle: lower-case, non-alphanumerics to blanks, collapse, trim
normalizeTitle(title) ==
    LET lowered  == [i \in 1..Len(title) |-> toLowerCase(title[i])]
        replaced == [i \in 1..Len(title) |->
                        IF IsWordOrSpace(lowered[i]) THEN lowered[i] ELSE Blank]
    IN  trim(collapseSpaces(replaced))

\* bigrams: the set of all contiguous 2-character substrings
bigrams(value) == {SubSeq(value, i, i + 1) : i \in 1..(Len(value) - 1)}

\* similarityScore returns a JavaScript number; the model keeps it as the
\* fraction num/den.  den = 0 is the 0/0 the code computes for two different
\* one-character titles: NaN, which compares false against every number.
similarityScore(a, b) ==
    IF a = <<>> \/ b = <<>> THEN [num |-> 0, den |-> 1]
    ELSE IF a = b THEN [num |-> 1, den |-> 1]
    ELSE LET aSet == bigrams(a)
             bSet == bigrams(b)
             matches == Cardinality(aSet \cap bSet)
         IN  [num |-> 2 * matches,
              den |-> Cardinality(aSet) + Cardinality(bSet)]

\* score >= 0.9 as the code's comparison evaluates it (false for NaN)
AtLeastNineTenths(score) == score.den > 0 /\ 10 * score.num >= 9 * score.den

\* seenTitles.some((seen) => similarityScore(seen, titleKey) >= 0.9)
isNearDuplicate(seenTitles, titleKey) ==
    \E i \in 1..Len(seenTitles) :
        AtLeastNineTenths(similarityScore(seenTitles[i], titleKey))

---------------------------------------------------------------------------
(* Dedup Engine *)

EmptyAcc == [result |-> <<>>, seenUrls |-> {}, seenTitles |-> <<>>]

\* A slip of the loop body: the title list is overwritten with the title of
\* whatever item was looked at last, accepted or not.
dedupeVisitLastTitleOnly(acc, item, requireSnippet) ==
    LET titleKey == normalizeTitle(item.title)
        seen     == [acc EXCEPT !.seenTitles = <<titleKey>>]
    IN  IF titleKey = <<>> \/ (requireSnippet /\ item.snippet = <<>>) \/ item.url = <<>>
        THEN seen
        ELSE IF item.url \in acc.seenUrls THEN seen
        ELSE IF isNearDuplicate(acc.seenTitles, titleKey) THEN seen
        ELSE [result     |-> Append(acc.result, item),
              seenUrls   |-> acc.seenUrls \cup {item.url},
              seenTitles |-> <<titleKey>>]

\* A slip of the loop body: the near-duplicate test is left out.
dedupeVisitUrlOnly(acc, item, requireSnippet) ==
    LET titleKey == normalizeTitle(item.title)
    IN  IF titleKey = <<>> \/ (requireSnippet /\ item.snippet = <<>>) \/ item.url = <<>>
        THEN acc
        ELSE IF item.url \in acc.seenUrls THEN acc
        ELSE [result     |-> Append(acc.result, item),
              seenUrls   |-> acc.seenUrls \cup {item.url},
              seenTitles |-> Append(acc.seenTitles, titleKey)]

\* The body of items.forEach in dedupeSnippets (requireSnippet) and in
\* dedupeSignals (no test of item.snippet).
dedupeVisit(acc, item, requireSnippet) ==
    LET titleKey == normalizeTitle(item.title)
    IN  IF titleKey = <<>> \/ (requireSnippet /\ item.snippet = <<>>) \/ item.url = <<>>
        THEN acc
        ELSE IF item.url \in acc.seenUrls THEN acc
        ELSE IF isNearDuplicate(acc.seenTitles, titleKey) THEN acc
        ELSE [result     |-> Append(acc.result, item),
              seenUrls   |-> acc.seenUrls \cup {item.url},
              seenTitles |-> Append(acc.seenTitles, titleKey)]

RECURSIVE dedupeFold(_, _, _)
dedupeFold(acc, items, requireSnippet) ==
    IF items = <<>> THEN acc
    ELSE dedupeFold(dedupeVisit(acc, Head(items), requireSnippet),
                    Tail(items), requireSnippet)

\* retrieval endpoint
dedupeSnippets(items) == dedupeFold(EmptyAcc, items, TRUE).result

\* streaming pipeline
dedupeSignals(items) == dedupeFold(EmptyAcc, items, FALSE).result

dedupe(variant, items) ==
    IF variant = "snippets" THEN dedupeSnippets(items) ELSE dedupeSignals(items)

Signal(t, u, s) == [title |-> t, url |-> u, snippet |-> s]

U1 == <<"https://", "a.com", "/", "1">>
U2 == <<"https://", "a.com", "/", "2">>
U3 == <<"https://", "b.org", "/", "1">>
NoUrl == <<>>

Body == <<"s">>
BlankBody == <<" ">>
NoBody == <<>>

---------------------------------------------------------------------------
(* External providers: what one call can come back with *)

\* .map(item => ({title: String(..).trim(), snippet: ..., url: ...}))
coerceItem(item) ==
    [title |-> trim(item.title), url |-> trim(item.url),
     snippet |-> trim(item.snippet)]

coerceAll(items) == [i \in 1..Len(items) |-> coerceItem(items[i])]

\* Replies of the retrieval provider.  content is the array found in the text
\* of the first choice (array = FALSE: extractJsonArray finds no parseable
\* [...] in it and returns null); search is payload.search_results
\* (hasSearch = FALSE: not an array).
ListDup ==
    << Signal(<<"a", "a">>, U1, Body),
       Signal(<<" ", "A", "a", "!">>, U2, NoBody),
       Signal(<<"a", "b">>, U1, Body) >>

ListPlain ==
    << Signal(<<"a", "b">>, U1, Body), Signal(<<"b">>, U2, BlankBody) >>

ListBlank == << Signal(<<"!">>, U1, Body), Signal(<<"a">>, NoUrl, Body) >>

PerplexityReplies ==
    { [kind |-> "network"], [kind |-> "timeout"], [kind |-> "status"],
      [kind |-> "notjson"] }
    \cup { [kind |-> "ok", array |-> TRUE, content |-> c,
              hasSearch |-> h, search |-> IF h THEN ListPlain ELSE <<>>] :
             c \in {<<>>, ListDup, ListPlain, ListBlank}, h \in BOOLEAN }
    \cup { [kind |-> "ok", array |-> FALSE, content |-> <<>>,
              hasSearch |-> h, search |-> IF h THEN ListPlain ELSE <<>>] :
             h \in BOOLEAN }

\* Replies of the Mino provider to the streaming pipeline's runMino
MinoReplies ==
    { [kind |-> "network"], [kind |-> "timeout"], [kind |-> "status"],
      [kind |-> "unparseable"], [kind |-> "failedstatus"] }
    \cup { [kind |-> "ok", result |-> x] : x \in {"full", "partial"} }

Ok(v) == [ok |-> TRUE, value |-> v]
Thrown(m) == [ok |-> FALSE, message |-> m]

---------------------------------------------------------------------------
(* Streaming pipeline: app/api/reason/route.ts *)

HasTitleAndUrl(item) == item.title # <<>> /\ item.url # <<>>

\* runPerplexity: the value it resolves with, or the Error it rejects with
runPerplexity(e, reply) ==
    IF ~e.perplexityKey THEN Thrown("Missing PERPLEXITY_API_KEY")
    ELSE IF reply.kind = "network" THEN Thrown("fetch failed")
    ELSE IF reply.kind = "timeout" THEN Thrown("The operation timed out")
    ELSE IF reply.kind = "status" THEN Thrown("Perplexity request failed")
    ELSE IF reply.kind = "notjson" THEN Thrown("Unexpected token in JSON")
    ELSE LET extracted  == IF reply.array THEN reply.content ELSE <<>>
             normalized == SelectSeq(coerceAll(extracted), HasTitleAndUrl)
             fallback   == IF reply.hasSearch
                           THEN SelectSeq(coerceAll(reply.search), HasTitleAndUrl)
                           ELSE <<>>
         IN  Ok(dedupeSignals(IF normalized # <<>> THEN normalized ELSE fallback))

\* runMino
runMino(e, reply) ==
    IF ~e.minoConfigured THEN Thrown("Missing MINO_API_KEY or MINO_API_URL")
    ELSE IF reply.kind = "network" THEN Thrown("fetch failed")
    ELSE IF reply.kind = "timeout" THEN Thrown("The operation timed out")
    ELSE IF reply.kind = "status" THEN Thrown("Mino request failed")
    ELSE IF reply.kind = "unparseable" THEN Thrown("Unable to parse Mino response.")
    ELSE IF reply.kind = "failedstatus" THEN Thrown("Mino status: FAILED")
    ELSE Ok(reply.result)

StageEvent(stage, status, message) ==
    [stage |-> stage, status |-> status, message |-> message]

StageResult(stage, data) ==
    [stage |-> stage, status |-> "complete",
     message |-> "Stage complete", data |-> data]

\* const normalized = signals.map(signal => ({...signal, title: trim, snippet: trim}))
normalizeSignals(signals) ==
    [i \in 1..Len(signals) |->
        [signals[i] EXCEPT !.title = trim(@), !.snippet = trim(@)]]

\* A slip of the try block: the next stage is announced before the
\* finished stage's complete event is sent.
afterStageAStartsEarly(events, signals) ==
    events \o << StageEvent("B", "start", "Stage B: Normalizing signals"),
                 StageResult("A", signals),
                 StageResult("B", normalizeSignals(signals)),
                 StageEvent("C", "start", "Stage C: Extracting opportunities") >>

\* lines 440-468: what the try block sends between runPerplexity resolving
\* and the first runMino call
afterStageA(events, signals) ==
    events \o << StageResult("A", signals),
                 StageEvent("B", "start", "Stage B: Normalizing signals"),
                 StageResult("B", normalizeSignals(signals)),
                 StageEvent("C", "start", "Stage C: Extracting opportunities") >>

\* lines 474-488, 493-504, 507-512: what the try block sends when the
\* runMino call of stage C, D or E resolves
afterMinoStage(events, stage, result) ==
    CASE stage = "C" ->
           events \o << StageResult("C", result),
                        StageEvent("D", "start", "Stage D: Scoring opportunity impact") >>
      [] stage = "D" ->
           events \o << StageResult("D", result),
                        StageEvent("E", "start", "Stage E: Generating creator playbook") >>
      [] stage = "E" ->
           Append(events, StageResult("E", result))

\* lines 513-519: the catch block
catchBlock(events, message) ==
    Append(events, StageEvent("A", "error", message))

\* A slip: the stream is closed only at the end of the try block, so a
\* failed run never closes it.
finallyBlockMissing(closes) == closes

\* lines 520-522: finally { controller.close() }
finallyBlock(closes) == closes + 1

StreamBodies ==
    { [niche |-> n, platform |-> "youtube", audience |-> a] :
        n \in {"", "fitness"}, a \in {"", "teens"} }

\* POST: validation, then the stream's start callback runs run() up to its
\* first await
StreamPost(r, body) ==
    /\ sPc[r] = "idle"
    /\ IF body.niche = "" \/ body.platform = "" \/ body.audience = ""
       THEN /\ sPc' = [sPc EXCEPT ![r] = "rejected"]
            /\ sResponse' = [sResponse EXCEPT ![r] =
                   [kind |-> "json", status |-> 400,
                    body |-> [error |-> "Missing niche, platform, or audience."]]]
            /\ UNCHANGED sEvents
       ELSE /\ sPc' = [sPc EXCEPT ![r] = "awaitA"]
            /\ sResponse' = [sResponse EXCEPT ![r] = [kind |-> "stream"]]
            /\ sEvents' = [sEvents EXCEPT ![r] =
                   <<StageEvent("A", "start", "Stage A: Fetching live signals")>>]
    /\ UNCHANGED <<sCloses, env, dedupVars, apiExchange, clientVars, call>>

\* await runPerplexity(body) settles
StageASettles(r, reply) ==
    /\ sPc[r] = "awaitA"
    /\ LET out == runPerplexity(env, reply)
       IN  IF out.ok
           THEN /\ sEvents' = [sEvents EXCEPT ![r] = afterStageA(@, out.value)]
                /\ sPc' = [sPc EXCEPT ![r] = "awaitC"]
                /\ UNCHANGED sCloses
           ELSE /\ sEvents' = [sEvents EXCEPT ![r] = catchBlock(@, out.message)]
                /\ sCloses' = [sCloses EXCEPT ![r] = finallyBlock(@)]
                /\ sPc' = [sPc EXCEPT ![r] = "closed"]
    /\ UNCHANGED <<sResponse, env, dedupVars, apiExchange, clientVars, call>>

AwaitedStage(pc) ==
    CASE pc = "awaitA" -> "A"
      [] pc = "awaitC" -> "C"
      [] pc = "awaitD" -> "D"
      [] pc = "awaitE" -> "E"

\* await runMino(goal) of stage C, D or E settles
MinoStageSettles(r, reply) ==
    /\ sPc[r] \in {"awaitC", "awaitD", "awaitE"}
    /\ LET stage == AwaitedStage(sPc[r])
           out   == runMino(env, reply)
       IN  IF out.ok
           THEN /\ sEvents' = [sEvents EXCEPT ![r] = afterMinoStage(@, stage, out.value)]
                /\ IF stage = "E"
                   THEN /\ sCloses' = [sCloses EXCEPT ![r] = finallyBlock(@)]
                        /\ sPc' = [sPc EXCEPT ![r] = "closed"]
                   ELSE /\ sPc' = [sPc EXCEPT ![r] =
                                IF stage = "C" THEN "awaitD" ELSE "awaitE"]
                        /\ UNCHANGED sCloses
           ELSE /\ sEvents' = [sEvents EXCEPT ![r] = catchBlock(@, out.message)]
                /\ sCloses' = [sCloses EXCEPT ![r] = finallyBlock(@)]
                /\ sPc' = [sPc EXCEPT ![r] = "closed"]
    /\ UNCHANGED <<sResponse, env, dedupVars, apiExchange, clientVars, call>>

StreamInit ==
    /\ env \in [perplexityKey : BOOLEAN, minoConfigured : BOOLEAN]
    /\ StreamIdle
    /\ DedupIdle
    /\ ApiIdle
    /\ ClientIdle
    /\ CallIdle

StreamNext ==
    \/ \E r \in 1..MaxRequests : \E body \in StreamBodies : StreamPost(r, body)
    \/ \E r \in 1..MaxRequests : \E reply \in PerplexityReplies : StageASettles(r, reply)
    \/ \E r \in 1..MaxRequests : \E reply \in MinoReplies : MinoStageSettles(r, reply)

SpecStream == StreamInit /\ [][StreamNext]_vars

\* every external call eventually returns or fails
FairSpecStream ==
    /\ SpecStream
    /\ \A r \in 1..MaxRequests :
          /\ WF_vars(\E reply \in PerplexityReplies : StageASettles(r, reply))
          /\ WF_vars(\E reply \in MinoReplies : MinoStageSettles(r, reply))

---------------------------------------------------------------------------
(* Retrieval endpoint: the POST of /api/retrieve *)

Json(status, body) == [status |-> status, body |-> body]

\* An exception that escapes a route handler: the framework answers 500
\* with no JSON body.
Unhandled == [status |-> 500, body |-> [unhandled |-> TRUE]]

RECURSIVE includes(_, _)
\* String.prototype.includes, on chunk sequences
includes(text, part) ==
    IF Len(text) < Len(part) THEN FALSE
    ELSE SubSeq(text, 1, Len(part)) = part \/ includes(Tail(text), part)

isExcludedSource(url) ==
    LET lower == [i \in 1..Len(url) |-> toLowerCase(url[i])]
    IN  \/ includes(lower, <<"x.com", "/">>)
        \/ includes(lower, <<"twitter.com", "/">>)
        \/ includes(lower, <<"reddit.com", "/">>)

HasTitleSnippetUrl(item) ==
    item.title # <<>> /\ item.snippet # <<>> /\ item.url # <<>>

NotExcluded(item) == ~isExcludedSource(item.url)

RetrieveBodies ==
    { [topic |-> tp, region |-> rg, timeWindow |-> "72h", sourceFocus |-> "mixed"] :
        tp \in {"", "sustainable fashion"}, rg \in {"", "Europe"} }

retrievePOST(e, body, reply) ==
    IF body.topic = "" \/ body.region = "" \/ body.timeWindow = ""
    THEN Json(400, [error |-> "Missing topic, region, or time window."])
    ELSE IF ~e.perplexityKey
    THEN Json(500, [error |-> "Missing PERPLEXITY_API_KEY."])
    ELSE IF reply.kind \in {"network", "timeout"} THEN Unhandled
    ELSE IF reply.kind = "status"
    THEN Json(502, [error |-> "Perplexity request failed.", errorType |-> "perplexity"])
    ELSE IF reply.kind = "notjson" THEN Unhandled
    ELSE LET extracted  == IF reply.array THEN reply.content ELSE <<>>
             normalized == SelectSeq(coerceAll(extracted), HasTitleSnippetUrl)
             fallback   == IF reply.hasSearch
                           THEN SelectSeq(coerceAll(reply.search), HasTitleAndUrl)
                           ELSE <<>>
             combined   == IF normalized # <<>> THEN normalized ELSE fallback
             filtered   == SelectSeq(combined, NotExcluded)
             deduped    == dedupeSnippets(filtered)
         IN  IF deduped = <<>>
             THEN Json(502, [error |-> "Perplexity returned no usable snippets.",
                             errorType |-> "perplexity"])
             ELSE Json(200, [snippets |-> deduped])

---------------------------------------------------------------------------
(* Classification endpoint: the handler of pages/api/reason.ts *)

MAX_SNIPPET_CHARS == 800
MAX_TITLE_CHARS == 160
MAX_TOTAL_CHARS == 12000

truncate(value, limit) ==
    IF Len(value) <= limit THEN value ELSE trim(SubSeq(value, 1, limit))

RECURSIVE budgetFoldNoTotal(_, _, _)
\* A slip of the loop body: totalChars is never increased.
budgetFoldNoTotal(trimmed, totalChars, snippets) ==
    IF snippets = <<>> THEN trimmed
    ELSE LET next == [Head(snippets) EXCEPT
                         !.title = truncate(@, MAX_TITLE_CHARS),
                         !.snippet = truncate(@, MAX_SNIPPET_CHARS)]
             size == Len(next.title) + Len(next.snippet)
         IN  IF totalChars + size > MAX_TOTAL_CHARS
             THEN budgetFoldNoTotal(trimmed, totalChars, Tail(snippets))
             ELSE budgetFoldNoTotal(Append(trimmed, next), totalChars, Tail(snippets))

RECURSIVE budgetFoldSnippetCap(_, _, _)
budgetFoldSnippetCap(trimmed, totalChars, snippets) ==
    IF snippets = <<>> THEN trimmed
    ELSE LET next == [Head(snippets) EXCEPT
                         !.title = truncate(@, MAX_TITLE_CHARS),
                         !.snippet = truncate(@, MAX_SNIPPET_CHARS)]
             size == Len(next.title) + Len(next.snippet)
         IN  IF totalChars + size > MAX_SNIPPET_CHARS
             THEN budgetFoldSnippetCap(trimmed, totalChars, Tail(snippets))
             ELSE budgetFoldSnippetCap(Append(trimmed, next), totalChars + size, Tail(snippets))

RECURSIVE budgetFold(_, _, _)
\* the forEach of enforceSnippetBudget: a snippet that does not fit is
\* skipped (return), the loop goes on
budgetFold(trimmed, totalChars, snippets) ==
    IF snippets = <<>> THEN trimmed
    ELSE LET next == [Head(snippets) EXCEPT
                         !.title = truncate(@, MAX_TITLE_CHARS),
                         !.snippet = truncate(@, MAX_SNIPPET_CHARS)]
             size == Len(next.title) + Len(next.snippet)
         IN  IF totalChars + size > MAX_TOTAL_CHARS
             THEN budgetFold(trimmed, totalChars, Tail(snippets))
             ELSE budgetFold(Append(trimmed, next), totalChars + size, Tail(snippets))

enforceSnippetBudget(snippets) == budgetFold(<<>>, 0, snippets)

Item(i, em, co, na, cl) ==
    [index |-> i, emotion |-> em, concern |-> co, narrative |-> na, cluster |-> cl]

\* classifiedSnippetSchema / narrativeClusterSchema / minoResponseSchema
schemaAccepts(parsed) ==
    /\ parsed.hasItems
    /\ \A i \in 1..Len(parsed.items) :
          /\ parsed.items[i].index >= 0
          /\ parsed.items[i].emotion # ""
          /\ parsed.items[i].concern # ""
          /\ parsed.items[i].narrative # ""
          /\ parsed.items[i].cluster # ""
    /\ \A i \in 1..Len(parsed.clusters) :
          parsed.clusters[i].label # "" /\ parsed.clusters[i].size >= 0

Parsed(items, clusters) ==
    [hasItems |-> TRUE, items |-> items, clusters |-> clusters]

\* JSON objects the classification provider may answer with
JoyJoyFear ==
    Parsed(<< Item(0, "joy", "cost", "prices", "policy"),
              Item(1, "Joy ", "cost", "prices", "policy"),
              Item(0, "fear", "jobs", "layoffs", "backlash") >>, <<>>)

FearOnly ==
    Parsed(<< Item(1, "fear", "jobs", "layoffs", "backlash"),
              Item(7, "fear", "jobs", "layoffs", "backlash") >>, <<>>)

WithClusters ==
    Parsed(<< Item(0, "joy", "cost", "prices", "policy") >>,
           << [label |-> "policy", size |-> 3, exampleHeadlines |-> <<>>],
              [label |-> "backlash", size |-> 5, exampleHeadlines |-> <<>>] >>)

NoItemsField == [hasItems |-> FALSE, items |-> <<>>, clusters |-> <<>>]

EmptyEmotion == Parsed(<< Item(0, "", "cost", "prices", "policy") >>, <<>>)

ClassifierReplies ==
    { [kind |-> "network"], [kind |-> "timeout"],
      [kind |-> "status", status |-> 429], [kind |-> "status", status |-> 503],
      [kind |-> "unparseable"] }
    \cup { [kind |-> "json", parsed |-> x] :
             x \in {JoyJoyFear, FearOnly, WithClusters, NoItemsField, EmptyEmotion} }

ReasonRequests ==
    { [method |-> m, snippets |-> s] :
        m \in {"POST", "GET"},
        s \in {<<>>, ListPlain, <<Signal(<<"a", "a">>, U1, Body)>>} }

reasonHandler(e, req, reply) ==
    IF req.method # "POST" THEN Json(405, [error |-> "Method not allowed"])
    ELSE IF req.snippets = <<>>
    THEN Json(400, [error |-> "Missing snippets for reasoning.", errorType |-> "validation"])
    ELSE IF ~e.minoConfigured
    THEN Json(500, [error |-> "Missing MINO_API_KEY or MINO_API_URL"])
    ELSE IF enforceSnippetBudget(req.snippets) = <<>>
    THEN Json(400, [error |-> "Snippet budget exceeded.", errorType |-> "validation"])
    ELSE IF reply.kind \in {"network", "timeout"}
    THEN Json(500, [error |-> "Internal server error"])
    ELSE IF reply.kind = "status"
    THEN Json(reply.status, [error |-> "Mino API error", errorType |-> "mino"])
    ELSE IF reply.kind = "unparseable"
    THEN Json(500, [error |-> "Unable to parse Mino response.", errorType |-> "malformed"])
    ELSE IF ~schemaAccepts(reply.parsed)
    THEN Json(500, [error |-> "Malformed Mino response.", errorType |-> "malformed"])
    ELSE Json(200, [items |-> reply.parsed.items, clusters |-> reply.parsed.clusters])

---------------------------------------------------------------------------
(* Aggregation and Snapshot Diff: computeAnalysis of app/page.tsx *)

\* A Record<string, number> is kept as the sequence of its entries in
\* insertion order, which is the order Object.entries walks it in.
Entry(k, v) == [key |-> k, value |-> v]

HasKey(m, k) == \E i \in 1..Len(m) : m[i].key = k

\* m[k] ?? 0
Lookup(m, k) ==
    IF HasKey(m, k)
    THEN m[CHOOSE i \in 1..Len(m) : m[i].key = k].value
    ELSE 0

\* m[k] = v
Put(m, k, v) ==
    IF HasKey(m, k)
    THEN [i \in 1..Len(m) |-> IF m[i].key = k THEN Entry(k, v) ELSE m[i]]
    ELSE Append(m, Entry(k, v))

Keys(m) == {m[i].key : i \in 1..Len(m)}

\* value.trim().toLowerCase() on the labels of the model
normalizeLabel(value) ==
    CASE value = "Joy " -> "joy"
      [] value = " fear" -> "fear"
      [] value = " " -> ""
      [] OTHER -> value

\* label.trim() on the labels of the model
trimLabel(value) ==
    CASE value = "Joy " -> "Joy"
      [] value = " fear" -> "fear"
      [] value = " " -> ""
      [] OTHER -> value

\* items.reduce((acc, item) => { acc[key] = (acc[key] ?? 0) + 1 }, {}) on the
\* keys of the items: the keys in the order of their first item, each with the
\* number of its items
countKeys(keys) ==
    LET first  == {i \in 1..Len(keys) : \A j \in 1..(i - 1) : keys[j] # keys[i]}
        nth(k) == CHOOSE i \in first : Cardinality({j \in first : j < i}) = k - 1
    IN  [k \in 1..Cardinality(first) |->
            Entry(keys[nth(k)],
                  Cardinality({j \in 1..Len(keys) : keys[j] = keys[nth(k)]}))]

RECURSIVE insertDesc(_, _)
\* x goes before the first element with a smaller rank, so after every
\* element of equal rank: Array.prototype.sort is stable
insertDesc(sorted, x) ==
    IF sorted = <<>> THEN <<x>>
    ELSE IF x.rank > Head(sorted).rank THEN <<x>> \o sorted
    ELSE <<Head(sorted)>> \o insertDesc(Tail(sorted), x)

RECURSIVE sortFold(_, _)
sortFold(sorted, rest) ==
    IF rest = <<>> THEN sorted
    ELSE sortFold(insertDesc(sorted, Head(rest)), Tail(rest))

\* array.sort((a, b) => rank(b) - rank(a)), ranks[i] being the rank of array[i]
sortDesc(array, ranks) ==
    LET ranked == [i \in 1..Len(array) |-> [rank |-> ranks[i], elem |-> array[i]]]
        sorted == sortFold(<<>>, ranked)
    IN  [i \in 1..Len(sorted) |-> sorted[i].elem]

---------------------------------------------------------------------------
(* The Number arithmetic of computeAnalysis: IEEE 754 binary64 on values >= 0,
   round to nearest, ties to even. A Number is m * 2^e with m = 0 or
   2^52 <= m < 2^53. m does not fit a TLC integer, so it is kept as its digits
   in base 2^15, least significant first, without leading zeros. *)

LimbBits == 15
Limb == 32768
MantissaBits == 53
\* fraction bits a quotient is computed to before it is rounded
QuotientBits == 75

RECURSIVE Pow2(_)
Pow2(n) == IF n = 0 THEN 1 ELSE 2 * Pow2(n - 1)

RECURSIVE BitsOfInt(_)
BitsOfInt(n) == IF n = 0 THEN 0 ELSE 1 + BitsOfInt(n \div 2)

RECURSIVE BigTrim(_)
BigTrim(a) ==
    IF a = <<>> THEN a
    ELSE IF a[Len(a)] = 0 THEN BigTrim(SubSeq(a, 1, Len(a) - 1))
    ELSE a

\* 0 <= n < 2^31
BigOfInt(n) == BigTrim(<<n % Limb, (n \div Limb) % Limb, n \div (Limb * Limb)>>)

\* a < 2^30
IntOfBig(a) ==
    IF a = <<>> THEN 0
    ELSE a[1] + (IF Len(a) > 1 THEN Limb * a[2] ELSE 0)

LimbAt(a, i) == IF i <= Len(a) THEN a[i] ELSE 0

RECURSIVE BigAddFrom(_, _, _, _)
BigAddFrom(a, b, i, carry) ==
    IF i > Len(a) /\ i > Len(b) THEN (IF carry = 0 THEN <<>> ELSE <<carry>>)
    ELSE LET x == LimbAt(a, i) + LimbAt(b, i) + carry
         IN  <<x % Limb>> \o BigAddFrom(a, b, i + 1, x \div Limb)

BigAdd(a, b) == BigAddFrom(a, b, 1, 0)

RECURSIVE BigSubFrom(_, _, _, _)
BigSubFrom(a, b, i, borrow) ==
    IF i > Len(a) THEN <<>>
    ELSE LET x == LimbAt(a, i) - LimbAt(b, i) - borrow
         IN  IF x < 0 THEN <<x + Limb>> \o BigSubFrom(a, b, i + 1, 1)
             ELSE <<x>> \o BigSubFrom(a, b, i + 1, 0)

\* a - b for a >= b
BigSub(a, b) == BigTrim(BigSubFrom(a, b, 1, 0))

RECURSIVE BigCompareFrom(_, _, _)
BigCompareFrom(a, b, i) ==
    IF i = 0 THEN 0
    ELSE IF LimbAt(a, i) < LimbAt(b, i) THEN -1
    ELSE IF LimbAt(a, i) > LimbAt(b, i) THEN 1
    ELSE BigCompareFrom(a, b, i - 1)

\* -1, 0 or 1 as a is below, equal to or above b
BigCompare(a, b) == BigCompareFrom(a, b, IF Len(a) > Len(b) THEN Len(a) ELSE Len(b))

RECURSIVE BigTimesFrom(_, _, _, _)
BigTimesFrom(a, k, i, carry) ==
    IF i > Len(a) THEN (IF carry = 0 THEN <<>> ELSE <<carry>>)
    ELSE LET x == a[i] * k + carry
         IN  <<x % Limb>> \o BigTimesFrom(a, k, i + 1, x \div Limb)

\* a * k for 0 <= k < 2^15
BigTimes(a, k) == BigTrim(BigTimesFrom(a, k, 1, 0))

\* a * 2^s
BigShiftLeft(a, s) ==
    IF a = <<>> THEN a
    ELSE [i \in 1..(s \div LimbBits) |-> 0] \o BigTimes(a, Pow2(s % LimbBits))

RECURSIVE BigDivRem(_, _)
\* quotient and remainder of a by d, 0 < d <= 2^15
BigDivRem(a, d) ==
    IF a = <<>> THEN [q |-> <<>>, r |-> 0]
    ELSE LET hi == BigDivRem(Tail(a), d)
             x  == hi.r * Limb + Head(a)
         IN  [q |-> <<x \div d>> \o hi.q, r |-> x % d]

\* floor(a / 2^s)
BigShiftRight(a, s) ==
    LET k == s \div LimbBits
        rest == IF k >= Len(a) THEN <<>> ELSE SubSeq(a, k + 1, Len(a))
    IN  BigTrim(BigDivRem(rest, Pow2(s % LimbBits)).q)

BigBits(a) == IF a = <<>> THEN 0 ELSE LimbBits * (Len(a) - 1) + BitsOfInt(a[Len(a)])

Num(m, e) == [m |-> m, e |-> e]

Zero == Num(<<>>, 0)

One == Num(BigShiftLeft(<<1>>, MantissaBits - 1), 1 - MantissaBits)

\* The Number nearest to (n + t) * 2^e, where 0 <= t < 1 and t > 0 iff inexact
\* (an inexact n has more than 53 bits); a tie goes to the even mantissa
RoundToNumber(n, e, inexact) ==
    LET bits == BigBits(n)
    IN  IF bits = 0 THEN Zero
        ELSE IF bits <= MantissaBits
        THEN Num(BigShiftLeft(n, MantissaBits - bits), e - (MantissaBits - bits))
        ELSE LET s    == bits - MantissaBits
                 q    == BigShiftRight(n, s)
                 r    == BigSub(n, BigShiftLeft(q, s))
                 half == BigShiftLeft(<<1>>, s - 1)
                 c    == BigCompare(r, half)
                 up   == c > 0 \/ (c = 0 /\ (inexact \/ q[1] % 2 = 1))
                 m    == IF up THEN BigAdd(q, <<1>>) ELSE q
             IN  IF BigBits(m) > MantissaBits
                 THEN Num(BigShiftRight(m, 1), e + s + 1)
                 ELSE Num(m, e + s)

\* a / b for Numbers that are the integers a >= 0 and 0 < b < 2^15
Divide(a, b) ==
    LET d == BigDivRem(BigShiftLeft(BigOfInt(a), QuotientBits), b)
    IN  RoundToNumber(BigTrim(d.q), -QuotientBits, d.r # 0)

\* x * k for a Number x and an integer 0 <= k < 2^15
Times(x, k) == RoundToNumber(BigTimes(x.m, k), x.e, FALSE)

\* x / 2
Halve(x) == IF x = Zero THEN Zero ELSE Num(x.m, x.e - 1)

\* the mantissas of x and y (neither 0) on their smaller exponent
Aligned(x, y) ==
    LET e == IF x.e < y.e THEN x.e ELSE y.e
    IN  [e |-> e, x |-> BigShiftLeft(x.m, x.e - e), y |-> BigShiftLeft(y.m, y.e - e)]

\* x + y
Plus(x, y) ==
    IF x = Zero THEN y
    ELSE IF y = Zero THEN x
    ELSE LET a == Aligned(x, y) IN RoundToNumber(BigAdd(a.x, a.y), a.e, FALSE)

\* Math.abs(x - y)
absMinus(x, y) ==
    IF x = Zero THEN y
    ELSE IF y = Zero THEN x
    ELSE LET a == Aligned(x, y)
         IN  IF BigCompare(a.x, a.y) >= 0
             THEN RoundToNumber(BigSub(a.x, a.y), a.e, FALSE)
             ELSE RoundToNumber(BigSub(a.y, a.x), a.e, FALSE)

\* x < y
LessThan(x, y) ==
    IF y = Zero THEN FALSE
    ELSE IF x = Zero THEN TRUE
    ELSE LET a == Aligned(x, y) IN BigCompare(a.x, a.y) < 0

\* Math.min(1, x)
minOne(x) == IF LessThan(x, One) THEN x ELSE One

\* Math.round(x) for 0 <= x < 2^30: the nearest integer, a half goes up
round(x) ==
    IF x = Zero THEN 0
    ELSE LET s    == 0 - x.e
             q    == BigShiftRight(x.m, s)
             r    == BigSub(x.m, BigShiftLeft(q, s))
             half == BigShiftLeft(<<1>>, s - 1)
         IN  IntOfBig(q) + (IF BigCompare(r, half) >= 0 THEN 1 ELSE 0)

\* the integer n as a Number, 0 <= n < 2^31
NumberOf(n) == RoundToNumber(BigOfInt(n), 0, FALSE)

\* x <= y
AtMost(x, y) == ~LessThan(y, x)

RECURSIVE BigTimesAll(_, _)
\* a * ks[1] * ... * ks[n], every factor below 2^15
BigTimesAll(a, ks) == IF ks = <<>> THEN a ELSE BigTimesAll(BigTimes(a, Head(ks)), Tail(ks))

RECURSIVE BigDivAll(_, _)
\* floor(a / (ds[1] * ... * ds[n])), and whether the division leaves no remainder
BigDivAll(a, ds) ==
    IF ds = <<>> THEN [q |-> a, exact |-> TRUE]
    ELSE LET d    == BigDivRem(a, Head(ds))
             rest == BigDivAll(BigTrim(d.q), Tail(ds))
         IN  [q |-> rest.q, exact |-> d.r = 0 /\ rest.exact]

\* a / (ds[1] * ... * ds[n]) for an integer a kept as digits and a divisor below
\* 2^30: the quotient is computed to 30 more fraction bits, so that it has more
\* than 53 bits before it is rounded
DivideBig(a, ds) ==
    LET bits == QuotientBits + 2 * LimbBits
        d    == BigDivAll(BigShiftLeft(a, bits), ds)
    IN  RoundToNumber(d.q, -bits, ~d.exact)

RECURSIVE LargestFactor(_, _, _, _)
\* the largest k of lo..hi with b * k <= x
LargestFactor(b, x, lo, hi) ==
    IF lo = hi THEN lo
    ELSE LET mid == (lo + hi + 1) \div 2
         IN  IF BigCompare(BigTimes(b, mid), x) <= 0
             THEN LargestFactor(b, x, mid, hi)
             ELSE LargestFactor(b, x, lo, mid - 1)

RECURSIVE BigDivBig(_, _)
\* quotient and remainder of a by b > 0, both kept as digits
BigDivBig(a, b) ==
    IF a = <<>> THEN [q |-> <<>>, r |-> <<>>]
    ELSE LET hi == BigDivBig(Tail(a), b)
             x  == BigTrim(<<Head(a)>> \o hi.r)
         IN  IF BigCompare(x, b) < 0 THEN [q |-> <<0>> \o hi.q, r |-> x]
             ELSE LET k == LargestFactor(b, x, 1, Limb - 1)
                  IN  [q |-> <<k>> \o hi.q, r |-> BigSub(x, BigTimes(b, k))]

\* x / y for Numbers, y not 0; x / 1 is x
Over(x, y) ==
    IF x = Zero THEN Zero
    ELSE IF y = One THEN x
    ELSE LET d == BigDivBig(BigShiftLeft(x.m, QuotientBits), y.m)
         IN  RoundToNumber(BigTrim(d.q), x.e - y.e - QuotientBits, d.r # <<>>)

\* the Number a literal 0.n stands for
Tenths(n) == Divide(n, 10)

---------------------------------------------------------------------------
(* src/lib/utils.ts *)

Null == [null |-> TRUE]

\* A date string is empty, a text Date cannot parse, or names a time, which is
\* kept as its day and the milliseconds into that day
EmptyDate == [text |-> ""]
Unparseable == [text |-> "soon"]
DateAt(day, ms) == [text |-> "date", day |-> day, ms |-> ms]

\* 1000 * 60 * 60 * 24
MsOfDay == <<1000, 60, 60, 24>>

\* new Date(dateString).getTime() of a date string that parses
getTime(dateString) == BigAdd(BigTimesAll(BigOfInt(dateString.day), MsOfDay), BigOfInt(dateString.ms))

isNaNTime(dateString) == dateString.text # "date"

\* now is Date.now()
daysSince(dateString, now) ==
    IF dateString.text = "" THEN Null
    ELSE IF isNaNTime(dateString) THEN Null
    ELSE LET parsed == getTime(dateString)
         IN  IF BigCompare(now, parsed) <= 0 THEN Zero
             ELSE DivideBig(BigSub(now, parsed), MsOfDay)

scoreRecencyEdgeToOlder(days) ==
    IF days = Null THEN 35
    ELSE IF LessThan(days, NumberOf(1)) THEN 95
    ELSE IF LessThan(days, NumberOf(3)) THEN 85
    ELSE IF LessThan(days, NumberOf(7)) THEN 70
    ELSE IF LessThan(days, NumberOf(14)) THEN 58
    ELSE IF LessThan(days, NumberOf(30)) THEN 45
    ELSE 30

scoreRecency(days) ==
    IF days = Null THEN 35
    ELSE IF AtMost(days, NumberOf(1)) THEN 95
    ELSE IF AtMost(days, NumberOf(3)) THEN 85
    ELSE IF AtMost(days, NumberOf(7)) THEN 70
    ELSE IF AtMost(days, NumberOf(14)) THEN 58
    ELSE IF AtMost(days, NumberOf(30)) THEN 45
    ELSE 30

\* Math.min(Math.max(value, min), max), on integers
clamp(value, min, max) ==
    LET low == IF value > min THEN value ELSE min
    IN  IF low < max THEN low ELSE max

scoreDiversity(uniqueDomains) ==
    IF uniqueDomains >= 5 THEN 90
    ELSE IF uniqueDomains >= 4 THEN 80
    ELSE IF uniqueDomains >= 3 THEN 70
    ELSE IF uniqueDomains >= 2 THEN 55
    ELSE 40

RECURSIVE reduceWeights(_, _)
\* values.reduce((sum, item) => sum + item.weight, 0)
reduceWeights(sum, values) ==
    IF values = <<>> THEN sum
    ELSE reduceWeights(Plus(sum, Head(values).weight), Tail(values))

RECURSIVE reduceValues(_, _)
\* values.reduce((acc, item) => acc + item.value * item.weight, 0)
reduceValues(acc, values) ==
    IF values = <<>> THEN acc
    ELSE reduceValues(Plus(acc, Times(Head(values).weight, Head(values).value)), Tail(values))

\* values are integers from 0 to 100, weights are Numbers
weightedScore(values) ==
    LET totalWeight == reduceWeights(Zero, values)
    IN  IF totalWeight = Zero THEN 0
        ELSE round(Over(reduceValues(Zero, values), totalWeight))

scoreConfidence(sourceCount, diversityScore, recencyScore) ==
    LET sourceScore == clamp(sourceCount * 18, 35, 95)
    IN  clamp(weightedScore(<< [value |-> sourceScore, weight |-> Tenths(4)],
                               [value |-> diversityScore, weight |-> Tenths(3)],
                               [value |-> recencyScore, weight |-> Tenths(3)] >>),
              0, 100)

confidenceLabelAboveOnly(score) ==
    IF score > 80 THEN "High"
    ELSE IF score > 60 THEN "Medium"
    ELSE "Early signal"

confidenceLabel(score) ==
    IF score >= 80 THEN "High"
    ELSE IF score >= 60 THEN "Medium"
    ELSE "Early signal"

---------------------------------------------------------------------------

emotionKey(item) == normalizeLabel(IF item.emotion = "" THEN "neutral" ELSE item.emotion)

concernKey(item) ==
    normalizeLabel(IF item.concern = "" THEN "general sentiment" ELSE item.concern)

clusterLabel(item) ==
    IF trimLabel(item.cluster) # "" THEN trimLabel(item.cluster)
    ELSE IF trimLabel(item.narrative) # "" THEN trimLabel(item.narrative)
    ELSE "general narrative"

\* lines 598-605
emotionBarsOf(items) ==
    LET emotionCounts == countKeys([i \in 1..Len(items) |-> emotionKey(items[i])])
        total == IF Len(items) > 1 THEN Len(items) ELSE 1
        bars  == [i \in 1..Len(emotionCounts) |->
                    [emotion |-> emotionCounts[i].key,
                     count |-> emotionCounts[i].value,
                     percentage |->
                         round(Times(Divide(emotionCounts[i].value, total), 100))]]
    IN  sortDesc(bars, [i \in 1..Len(bars) |-> bars[i].count])

\* lines 607-618
concernsOf(items) ==
    LET concernCounts == countKeys([i \in 1..Len(items) |-> concernKey(items[i])])
        rows == [i \in 1..Len(concernCounts) |->
                    [label |-> concernCounts[i].key, count |-> concernCounts[i].value]]
    IN  sortDesc(rows, [i \in 1..Len(rows) |-> rows[i].count])

InSeq(s, x) == \E i \in 1..Len(s) : s[i] = x

RECURSIVE clusterFoldSizeOnHit(_, _, _)
\* A slip of the count: an item whose index finds no signal is not counted
clusterFoldSizeOnHit(acc, items, snippets) ==
    IF items = <<>> THEN acc
    ELSE LET item  == Head(items)
             label == clusterLabel(item)
             known == \E i \in 1..Len(acc) : acc[i].label = label
             acc1  == IF known THEN acc
                      ELSE Append(acc, [label |-> label, size |-> 0,
                                        exampleHeadlines |-> <<>>])
             at    == CHOOSE i \in 1..Len(acc1) : acc1[i].label = label
             found == item.index + 1 \in 1..Len(snippets)
             headline == IF found THEN snippets[item.index + 1].title ELSE <<>>
             grown == IF found THEN [acc1[at] EXCEPT !.size = @ + 1] ELSE acc1[at]
             next  == IF /\ headline # <<>>
                         /\ Len(grown.exampleHeadlines) < 3
                         /\ ~InSeq(grown.exampleHeadlines, headline)
                      THEN [grown EXCEPT !.exampleHeadlines = Append(@, headline)]
                      ELSE grown
         IN  clusterFoldSizeOnHit([acc1 EXCEPT ![at] = next], Tail(items), snippets)

RECURSIVE clusterFoldNoLimit(_, _, _)
\* A slip of the headline test: the length check is missing
clusterFoldNoLimit(acc, items, snippets) ==
    IF items = <<>> THEN acc
    ELSE LET item  == Head(items)
             label == clusterLabel(item)
             known == \E i \in 1..Len(acc) : acc[i].label = label
             acc1  == IF known THEN acc
                      ELSE Append(acc, [label |-> label, size |-> 0,
                                        exampleHeadlines |-> <<>>])
             at    == CHOOSE i \in 1..Len(acc1) : acc1[i].label = label
             found == item.index + 1 \in 1..Len(snippets)
             headline == IF found THEN snippets[item.index + 1].title ELSE <<>>
             grown == [acc1[at] EXCEPT !.size = @ + 1]
             next  == IF /\ headline # <<>>
                         /\ ~InSeq(grown.exampleHeadlines, headline)
                      THEN [grown EXCEPT !.exampleHeadlines = Append(@, headline)]
                      ELSE grown
         IN  clusterFoldNoLimit([acc1 EXCEPT ![at] = next], Tail(items), snippets)

RECURSIVE clusterFold(_, _, _)
\* lines 622-645: acc is the sequence of NarrativeClusters in insertion order
clusterFold(acc, items, snippets) ==
    IF items = <<>> THEN acc
    ELSE LET item  == Head(items)
             label == clusterLabel(item)
             known == \E i \in 1..Len(acc) : acc[i].label = label
             acc1  == IF known THEN acc
                      ELSE Append(acc, [label |-> label, size |-> 0,
                                        exampleHeadlines |-> <<>>])
             at    == CHOOSE i \in 1..Len(acc1) : acc1[i].label = label
             \* snippets[item.index]?.title: undefined out of range
             found == item.index + 1 \in 1..Len(snippets)
             headline == IF found THEN snippets[item.index + 1].title ELSE <<>>
             grown == [acc1[at] EXCEPT !.size = @ + 1]
             next  == IF /\ headline # <<>>
                         /\ Len(grown.exampleHeadlines) < 3
                         /\ ~InSeq(grown.exampleHeadlines, headline)
                      THEN [grown EXCEPT !.exampleHeadlines = Append(@, headline)]
                      ELSE grown
         IN  clusterFold([acc1 EXCEPT ![at] = next], Tail(items), snippets)

\* lines 647-650
clustersOf(mino, snippets) ==
    LET chosen == IF Len(mino.clusters) > 0 THEN mino.clusters
                  ELSE clusterFold(<<>>, mino.items, snippets)
    IN  sortDesc(chosen, [i \in 1..Len(chosen) |-> chosen[i].size])

RECURSIVE distOf(_, _)
\* lines 652-655
distOf(acc, bars) ==
    IF bars = <<>> THEN acc
    ELSE distOf(Put(acc, Head(bars).emotion, Divide(Head(bars).percentage, 100)),
                Tail(bars))

RECURSIVE clusterMapOf(_, _)
\* lines 670-676
clusterMapOf(acc, clusters) ==
    IF clusters = <<>> THEN acc
    ELSE clusterMapOf(Put(acc, Head(clusters).label, Head(clusters).size),
                      Tail(clusters))

\* dist[emotion] ?? 0
fractionOf(dist, emotion) ==
    IF HasKey(dist, emotion)
    THEN dist[CHOOSE i \in 1..Len(dist) : dist[i].key = emotion].value
    ELSE Zero

\* Object.keys(m)
keysOf(m) == [i \in 1..Len(m) |-> m[i].key]

\* new Set([...Object.keys(currentDist), ...Object.keys(previousDist)]), in the
\* order forEach walks it
allEmotionsOf(currentDist, previousDist) ==
    keysOf(currentDist)
        \o SelectSeq(keysOf(previousDist), LAMBDA k : ~HasKey(currentDist, k))

RECURSIVE volatilityScoreOf(_, _, _, _)
\* lines 662-667
volatilityScoreOf(score, emotions, currentDist, previousDist) ==
    IF emotions = <<>> THEN score
    ELSE volatilityScoreOf(
            Plus(score, absMinus(fractionOf(currentDist, Head(emotions)),
                                 fractionOf(previousDist, Head(emotions)))),
            Tail(emotions), currentDist, previousDist)

\* lines 657-668: Math.round(Math.min(1, volatilityScore / 2) * 100)
volatilityOf(currentDist, previousDist) ==
    LET score == volatilityScoreOf(Zero, allEmotionsOf(currentDist, previousDist),
                                   currentDist, previousDist)
    IN  round(Times(minOne(Halve(score)), 100))

IsPositive(entry) == entry.delta > 0

\* A slip of the cut: slice(0, 4)
risingNarrativesOfTopFour(clusterMap, prevClusterMap) ==
    LET deltas == [i \in 1..Len(clusterMap) |->
                     [label |-> clusterMap[i].key,
                      delta |-> clusterMap[i].value
                                  - Lookup(prevClusterMap, clusterMap[i].key)]]
        rising == SelectSeq(deltas, IsPositive)
        sorted == sortDesc(rising, [i \in 1..Len(rising) |-> rising[i].delta])
    IN  SubSeq(sorted, 1, IF Len(sorted) < 4 THEN Len(sorted) ELSE 4)

\* A slip of the order: the first comparison wins, so that later entries with a
\* larger delta stay behind
risingNarrativesOfUnsorted(clusterMap, prevClusterMap) ==
    LET deltas == [i \in 1..Len(clusterMap) |->
                     [label |-> clusterMap[i].key,
                      delta |-> clusterMap[i].value
                                  - Lookup(prevClusterMap, clusterMap[i].key)]]
        rising == SelectSeq(deltas, IsPositive)
    IN  SubSeq(rising, 1, IF Len(rising) < 5 THEN Len(rising) ELSE 5)

\* lines 677-685
risingNarrativesOf(clusterMap, prevClusterMap) ==
    LET deltas == [i \in 1..Len(clusterMap) |->
                     [label |-> clusterMap[i].key,
                      delta |-> clusterMap[i].value
                                  - Lookup(prevClusterMap, clusterMap[i].key)]]
        rising == SelectSeq(deltas, IsPositive)
        sorted == sortDesc(rising, [i \in 1..Len(rising) |-> rising[i].delta])
    IN  SubSeq(sorted, 1, IF Len(sorted) < 5 THEN Len(sorted) ELSE 5)

\* What localStorage holds under "pmr-last-run"
NoItem == [kind |-> "absent"]
CorruptItem == [kind |-> "corrupt"]
StoredSnapshot(s) == [kind |-> "json", snapshot |-> s]

\* the lastSnapshot memo: getItem, then JSON.parse in a try/catch
readSnapshot(item) ==
    IF item.kind = "json" THEN [present |-> TRUE, snapshot |-> item.snapshot]
    ELSE [present |-> FALSE]

\* lastSnapshot?.emotionDistribution ?? {}
previousDistOf(last) == IF last.present THEN last.snapshot.emotionDistribution ELSE <<>>

\* lastSnapshot?.clusters ?? {}
prevClusterMapOf(last) == IF last.present THEN last.snapshot.clusters ELSE <<>>

\* A slip of persistSnapshot: the new maps are merged into the stored ones
\* instead of replacing them.
mergeMaps(old, new) ==
    old \o SelectSeq(new, LAMBDA e : ~HasKey(old, e.key))

snapshotOfMerged(currentDist, clusterMap, last, now) ==
    [emotionDistribution |-> mergeMaps(previousDistOf(last), currentDist),
     clusters |-> mergeMaps(prevClusterMapOf(last), clusterMap),
     timestamp |-> now]

\* lines 687-691: the snapshot handed to persistSnapshot
snapshotOf(currentDist, clusterMap, last, now) ==
    [emotionDistribution |-> currentDist,
     clusters |-> clusterMap,
     timestamp |-> now]

\* computeAnalysis(snippets, mino) with the lastSnapshot its closure holds:
\* the AnalysisResult it returns and the snapshot it persists
computeAnalysis(snippets, mino, last, now) ==
    LET items       == mino.items
        emotionBars == emotionBarsOf(items)
        concerns    == concernsOf(items)
        clusters    == clustersOf(mino, snippets)
        currentDist == distOf(<<>>, emotionBars)
        clusterMap  == clusterMapOf(<<>>, clusters)
    IN  [result |->
           [snippets |-> snippets,
            items |-> items,
            emotionBars |-> emotionBars,
            concerns |-> concerns,
            clusters |-> clusters,
            volatility |-> volatilityOf(currentDist, previousDistOf(last)),
            dominantNarrative |->
                IF clusters = <<>> THEN "undefined" ELSE clusters[1].label,
            dominantConcern |->
                IF concerns = <<>> THEN "undefined" ELSE concerns[1].label,
            risingNarratives |-> risingNarrativesOf(clusterMap, prevClusterMapOf(last)),
            timestamp |-> now],
         persisted |-> snapshotOf(currentDist, clusterMap, last, now)]

---------------------------------------------------------------------------
(* The two endpoints serving requests *)

RetrieveRequest(body, reply) ==
    /\ apiExchange' = [endpoint |-> "retrieve", request |-> body, reply |-> reply,
                       response |-> retrievePOST(env, body, reply)]
    /\ UNCHANGED <<env, dedupVars, streamVars, clientVars, call>>

ReasonRequest(req, reply) ==
    /\ apiExchange' = [endpoint |-> "reason", request |-> req, reply |-> reply,
                       response |-> reasonHandler(env, req, reply)]
    /\ UNCHANGED <<env, dedupVars, streamVars, clientVars, call>>

ApiInit ==
    /\ env \in [perplexityKey : BOOLEAN, minoConfigured : BOOLEAN]
    /\ ApiIdle
    /\ StreamIdle
    /\ DedupIdle
    /\ ClientIdle
    /\ CallIdle

ApiNext ==
    \/ \E body \in RetrieveBodies : \E reply \in PerplexityReplies :
          RetrieveRequest(body, reply)
    \/ \E req \in ReasonRequests : \E reply \in ClassifierReplies :
          ReasonRequest(req, reply)

SpecApi == ApiInit /\ [][ApiNext]_vars

---------------------------------------------------------------------------
(* The two-stage client: the Home component of app/page.tsx, once per tab. *)
(* A run is one call of runAnalysis or retryReason; its pc is the await it *)
(* is suspended at.  Handlers are modelled as the code has them: the       *)
(* loading guards are the ones inside retryRetrieve and retryReason.       *)
(* A state change and the render that follows it are one step.  The timer  *)
(* effect that adds "Detecting narratives" to the progress messages while  *)
(* loading is left out: it touches nothing but the message list.           *)

Present(v) == [present |-> TRUE, result |-> v]

Failure(type, message, step) ==
    [present |-> TRUE, type |-> type, message |-> message, step |-> step]

\* analysis?.timestamp (0 for undefined)
timestampOf(a) == IF a.present THEN a.result.timestamp ELSE 0

\* the useMemo of lastSnapshot in the render that follows a state change:
\* localStorage is read again only when analysis?.timestamp has changed
lastSnapshotMemo(t, nextAnalysis, nextStore) ==
    IF timestampOf(nextAnalysis) # timestampOf(analysis[t])
    THEN readSnapshot(nextStore)
    ELSE lastSnapshot[t]

ClientTopics == {" ", "sustainable fashion"}

\* !topic.trim()
IsBlankText(s) == s \in {"", " "}

ClientBody(topic) ==
    [topic |-> topic, region |-> "Europe", timeWindow |-> "72h",
     sourceFocus |-> "mixed"]

\* What the provider behind /api/retrieve answers a client run with
ClientRetrievalReplies ==
    { [kind |-> "status"], [kind |-> "notjson"] }
    \cup { [kind |-> "ok", array |-> TRUE, content |-> c,
              hasSearch |-> FALSE, search |-> <<>>] :
             c \in {ListDup} }

\* What the provider behind /api/reason answers a client run with
ClientClassifierReplies ==
    { [kind |-> "status", status |-> 503], [kind |-> "unparseable"] }
    \cup { [kind |-> "json", parsed |-> x] : x \in {JoyJoyFear, FearOnly} }

\* What an awaited fetch settles with when it is not aborted: a Response,
\* or a rejection (the request never reached the server)
FetchFailed == [status |-> 0, body |-> [failed |-> TRUE]]

RetrieveOutcomes ==
    {FetchFailed} \cup
    { retrievePOST(env, ClientBody("sustainable fashion"), reply) :
        reply \in ClientRetrievalReplies }

ReasonOutcomes(snippets) ==
    {FetchFailed} \cup
    { reasonHandler(env, [method |-> "POST", snippets |-> snippets], reply) :
        reply \in ClientClassifierReplies }

\* response.ok
IsOk(response) == response.status >= 200 /\ response.status <= 299

\* await response.json().catch(() => ({})): the parsed body, or {} when the
\* body is not JSON or the read is aborted
errorPayloadOf(run) ==
    IF run.aborted \/ "error" \notin DOMAIN run.response.body
    THEN [none |-> TRUE]
    ELSE run.response.body

\* errorPayload.errorType ?? fallback
errorTypeOf(payload, fallback) ==
    IF "errorType" \in DOMAIN payload THEN payload.errorType ELSE fallback

\* errorPayload.error || fallback
errorMessageOf(payload, fallback) ==
    IF "error" \in DOMAIN payload /\ payload.error # "" THEN payload.error
    ELSE fallback

InFlight(run) == run.pc \notin {"unused", "done"}

Done == [NoRun EXCEPT !.pc = "done"]

\* abortControllerRef.current.abort(), then a new controller for run r
startRun(t, r, kind, pc, snippets) ==
    /\ runs' = [q \in 1..MaxRuns |->
                  IF q = r
                  THEN [tab |-> t, kind |-> kind, pc |-> pc, aborted |-> FALSE,
                        concurrent |-> \E o \in 1..MaxRuns : InFlight(runs[o]),
                        seen |-> lastSnapshot[t], snippets |-> snippets,
                        response |-> NoRun.response]
                  ELSE IF InFlight(runs[q])
                  THEN [runs[q] EXCEPT !.aborted = @ \/ q = abortRef[t],
                                       !.concurrent = TRUE]
                  ELSE runs[q]]
    /\ abortRef' = [abortRef EXCEPT ![t] = r]
    /\ nextRun' = r

\* the finally block of a run, and the run's end
finish(r) ==
    /\ runs' = [runs EXCEPT ![r] = Done]
    /\ loading' = [loading EXCEPT ![runs[r].tab] = FALSE]

\* runAnalysis up to its first await
runAnalysis(t, topic) ==
    IF IsBlankText(topic)
    THEN /\ errorState' = [errorState EXCEPT ![t] =
               Failure("validation", "Please enter a topic and region.", "retrieve")]
         /\ UNCHANGED <<store, loading, progress, analysis, lastSnippets,
                        abortRef, lastSnapshot, runs, nextRun, clock>>
    ELSE /\ nextRun < MaxRuns
         /\ startRun(t, nextRun + 1, "analysis", "fetchRetrieve", <<>>)
         /\ errorState' = [errorState EXCEPT ![t] = Nothing]
         /\ loading' = [loading EXCEPT ![t] = TRUE]
         /\ progress' = [progress EXCEPT ![t] = <<"Fetching public sources">>]
         /\ analysis' = [analysis EXCEPT ![t] = Nothing]
         /\ lastSnapshot' = [lastSnapshot EXCEPT ![t] =
                                lastSnapshotMemo(t, Nothing, store)]
         /\ UNCHANGED <<store, lastSnippets, clock>>

RunAnalysis(t, topic) ==
    /\ runAnalysis(t, topic)
    /\ UNCHANGED <<dedupVars, env, streamVars, apiExchange, call>>

RetryRetrieve(t, topic) ==
    /\ ~loading[t]
    /\ runAnalysis(t, topic)
    /\ UNCHANGED <<dedupVars, env, streamVars, apiExchange, call>>

\* retryReason up to its first await
RetryReason(t) ==
    /\ ~loading[t]
    /\ lastSnippets[t] # <<>>
    /\ nextRun < MaxRuns
    /\ startRun(t, nextRun + 1, "retry", "fetchReason", lastSnippets[t])
    /\ errorState' = [errorState EXCEPT ![t] = Nothing]
    /\ loading' = [loading EXCEPT ![t] = TRUE]
    /\ progress' = [progress EXCEPT ![t] = <<"Re-running classification">>]
    /\ UNCHANGED <<store, analysis, lastSnippets, lastSnapshot, clock>>
    /\ UNCHANGED <<dedupVars, env, streamVars, apiExchange, call>>

\* the catch block: an AbortError is dropped, anything else is shown
catchOfRun(t, aborted, step) ==
    IF aborted THEN UNCHANGED errorState
    ELSE errorState' = [errorState EXCEPT ![t] =
             Failure("validation", "Failed to fetch", step)]

stepOfCatch(run) == IF run.kind = "retry" THEN "reason" ELSE "retrieve"

\* await fetch("/api/retrieve") settles
FetchRetrieveSettles(r, outcome) ==
    LET run == runs[r] IN
    /\ run.pc = "fetchRetrieve"
    /\ IF run.aborted \/ outcome = FetchFailed
       THEN /\ catchOfRun(run.tab, run.aborted, stepOfCatch(run))
            /\ finish(r)
       ELSE /\ runs' = [runs EXCEPT ![r] =
                  [run EXCEPT !.response = outcome,
                              !.pc = IF IsOk(outcome) THEN "readRetrieve"
                                     ELSE "readRetrieveError"]]
            /\ UNCHANGED <<errorState, loading>>
    /\ UNCHANGED <<store, progress, analysis, lastSnippets, abortRef,
                   lastSnapshot, nextRun, clock>>
    /\ UNCHANGED <<dedupVars, env, streamVars, apiExchange, call>>

\* await retrieveResponse.json().catch(() => ({})) settles
ReadRetrieveErrorSettles(r) ==
    LET run     == runs[r]
        payload == errorPayloadOf(run)
    IN
    /\ run.pc = "readRetrieveError"
    /\ errorState' = [errorState EXCEPT ![run.tab] =
           Failure(errorTypeOf(payload, "perplexity"),
                   errorMessageOf(payload, "Perplexity retrieval failed. Please retry."),
                   "retrieve")]
    /\ finish(r)
    /\ UNCHANGED <<store, progress, analysis, lastSnippets, abortRef,
                   lastSnapshot, nextRun, clock>>
    /\ UNCHANGED <<dedupVars, env, streamVars, apiExchange, call>>

\* await retrieveResponse.json() settles
ReadRetrieveSettles(r) ==
    LET run == runs[r] IN
    /\ run.pc = "readRetrieve"
    /\ IF run.aborted
       THEN /\ finish(r)
            /\ UNCHANGED <<lastSnippets, progress>>
       ELSE /\ lastSnippets' = [lastSnippets EXCEPT ![run.tab] =
                                   run.response.body.snippets]
            /\ progress' = [progress EXCEPT ![run.tab] =
                               Append(@, "Classifying emotions")]
            /\ runs' = [runs EXCEPT ![r] =
                  [run EXCEPT !.snippets = run.response.body.snippets,
                              !.response = NoRun.response,
                              !.pc = "fetchReason"]]
            /\ UNCHANGED loading
    /\ UNCHANGED <<store, analysis, errorState, abortRef, lastSnapshot,
                   nextRun, clock>>
    /\ UNCHANGED <<dedupVars, env, streamVars, apiExchange, call>>

\* await fetch("/api/reason") settles
FetchReasonSettles(r, outcome) ==
    LET run == runs[r] IN
    /\ run.pc = "fetchReason"
    /\ IF run.aborted \/ outcome = FetchFailed
       THEN /\ catchOfRun(run.tab, run.aborted, stepOfCatch(run))
            /\ finish(r)
       ELSE /\ runs' = [runs EXCEPT ![r] =
                  [run EXCEPT !.response = outcome,
                              !.pc = IF IsOk(outcome) THEN "readReason"
                                     ELSE "readReasonError"]]
            /\ UNCHANGED <<errorState, loading>>
    /\ UNCHANGED <<store, progress, analysis, lastSnippets, abortRef,
                   lastSnapshot, nextRun, clock>>
    /\ UNCHANGED <<dedupVars, env, streamVars, apiExchange, call>>

\* await reasonResponse.json().catch(() => ({})) settles
ReadReasonErrorSettles(r) ==
    LET run     == runs[r]
        payload == errorPayloadOf(run)
    IN
    /\ run.pc = "readReasonError"
    /\ errorState' = [errorState EXCEPT ![run.tab] =
           Failure(errorTypeOf(payload, "mino"),
                   errorMessageOf(payload, "Mino classification failed. Please retry."),
                   IF errorTypeOf(payload, "undefined") = "malformed"
                   THEN "parse" ELSE "reason")]
    /\ finish(r)
    /\ UNCHANGED <<store, progress, analysis, lastSnippets, abortRef,
                   lastSnapshot, nextRun, clock>>
    /\ UNCHANGED <<dedupVars, env, streamVars, apiExchange, call>>

\* await reasonResponse.json() settles: computeAnalysis (which persists the
\* snapshot), setAnalysis, the last progress message
ReadReasonSettles(r) ==
    LET run      == runs[r]
        t        == run.tab
    IN
    /\ run.pc = "readReason"
    /\ IF run.aborted
       THEN UNCHANGED <<store, progress, analysis, lastSnapshot, clock>>
       ELSE \E computed \in {computeAnalysis(run.snippets, run.response.body, run.seen,
                                    clock + 1)} :
            LET shown    == Present(computed.result)
                stored   == StoredSnapshot(computed.persisted) IN
            /\ store' = stored
            /\ analysis' = [analysis EXCEPT ![t] = shown]
            /\ progress' = [progress EXCEPT ![t] =
                  IF run.kind = "retry" THEN Append(@, "Analysis complete.")
                  ELSE @ \o <<"Synthesizing dashboard", "Analysis complete.">>]
            /\ lastSnapshot' = [lastSnapshot EXCEPT ![t] =
                                   lastSnapshotMemo(t, shown, stored)]
            /\ clock' = clock + 1
    /\ finish(r)
    /\ UNCHANGED <<errorState, lastSnippets, abortRef, nextRun>>
    /\ UNCHANGED <<dedupVars, env, streamVars, apiExchange, call>>

Init ==
    /\ env \in [perplexityKey : BOOLEAN, minoConfigured : BOOLEAN]
    /\ ClientIdle
    /\ CallIdle
    /\ DedupIdle
    /\ StreamIdle
    /\ ApiIdle

Next ==
    \/ \E t \in Tabs : \E topic \in ClientTopics : RunAnalysis(t, topic)
    \/ \E t \in Tabs : \E topic \in ClientTopics : RetryRetrieve(t, topic)
    \/ \E t \in Tabs : RetryReason(t)
    \/ \E r \in 1..MaxRuns :
          /\ runs[r].pc = "fetchRetrieve"
          /\ \E outcome \in RetrieveOutcomes : FetchRetrieveSettles(r, outcome)
    \/ \E r \in 1..MaxRuns : ReadRetrieveErrorSettles(r)
    \/ \E r \in 1..MaxRuns : ReadRetrieveSettles(r)
    \/ \E r \in 1..MaxRuns :
          /\ runs[r].pc = "fetchReason"
          /\ \E outcome \in ReasonOutcomes(runs[r].snippets) :
                FetchReasonSettles(r, outcome)
    \/ \E r \in 1..MaxRuns : ReadReasonErrorSettles(r)
    \/ \E r \in 1..MaxRuns : ReadReasonSettles(r)

Spec == Init /\ [][Next]_vars

---------------------------------------------------------------------------
(* Claims about the streaming pipeline *)

IsTerminal(e) == e.status \in {"complete", "error"}

\* the stage whose start event is the latest one before position i
RunningStageAt(ev, i) ==
    LET starts == {j \in 1..(i - 1) : ev[j].status = "start"}
        last   == CHOOSE j \in starts : \A k \in starts : k <= j
    IN  ev[last].stage

\* C1: every stage that emitted a start event has exactly one terminal event
\* (complete or error) with its own stage label, after the start: never two,
\* and none missing once the run is over.
C1_OneTerminalPerStartedStage ==
    \A r \in 1..MaxRequests :
        LET ev == sEvents[r]
        IN  \A i \in 1..Len(ev) :
               ev[i].status = "start" =>
                  LET terminals == {j \in 1..Len(ev) :
                                      IsTerminal(ev[j]) /\ ev[j].stage = ev[i].stage}
                  IN  /\ Cardinality(terminals) <= 1
                      /\ \A j \in terminals : j > i
                      /\ sPc[r] = "closed" => Cardinality(terminals) = 1

\* C2: the error event carries the stage that failed, i.e. the stage that
\* was running (started, not yet completed) when the error was raised.
C2_ErrorCarriesFailedStage ==
    \A r \in 1..MaxRequests :
        \A i \in 1..Len(sEvents[r]) :
            sEvents[r][i].status = "error" =>
                sEvents[r][i].stage = RunningStageAt(sEvents[r], i)

CanonicalOrder ==
    << <<"A", "start">>, <<"A", "complete">>, <<"B", "start">>, <<"B", "complete">>,
       <<"C", "start">>, <<"C", "complete">>, <<"D", "start">>, <<"D", "complete">>,
       <<"E", "start">>, <<"E", "complete">> >>

EndsInError(ev) == ev # <<>> /\ ev[Len(ev)].status = "error"

\* C3: every event stream is a prefix of start(A), complete(A), ..., start(E),
\* complete(E), optionally followed by one error event, which is then the
\* last event: once it is there the run is over and nothing is awaited.
C3_SequentialStagesThenOneError ==
    \A r \in 1..MaxRequests :
        LET ev == sEvents[r]
            k  == IF EndsInError(ev) THEN Len(ev) - 1 ELSE Len(ev)
        IN  /\ k <= Len(CanonicalOrder)
            /\ \A i \in 1..k : <<ev[i].stage, ev[i].status>> = CanonicalOrder[i]
            /\ EndsInError(ev) => sPc[r] = "closed"

\* a run whose stage C call timed out: five events of the order, then the error
C3_Witness ==
    \E r \in 1..MaxRequests :
        /\ Len(sEvents[r]) = 6
        /\ sEvents[r][5] = StageEvent("C", "start", "Stage C: Extracting opportunities")
        /\ sEvents[r][6].status = "error"
        /\ sEvents[r][6].message = "The operation timed out"
        /\ sPc[r] = "closed"

IsPrefix(s, t) == Len(s) <= Len(t) /\ SubSeq(t, 1, Len(s)) = s

RunOver(r) ==
    /\ sCloses[r] = 1
    /\ sEvents[r] # <<>>
    /\ LET last == sEvents[r][Len(sEvents[r])]
       IN  last.status = "error" \/ (last.stage = "E" /\ last.status = "complete")

\* C4: every run that starts eventually closes its stream, exactly once, after
\* complete(E) or after the error; nothing is closed before that, and events
\* already sent stay in the stream.
C4_StreamClosesOnceKeepsEvents ==
    /\ \A r \in 1..MaxRequests : (sResponse[r].kind = "stream") ~> RunOver(r)
    /\ [](\A r \in 1..MaxRequests :
             /\ sCloses[r] <= 1
             /\ sCloses[r] = 1 => RunOver(r)
             /\ sPc[r] = "closed" => sCloses[r] = 1)
    /\ [][\A r \in 1..MaxRequests : IsPrefix(sEvents[r], sEvents'[r])]_vars

\* a run that failed in stage D: the stream is closed and still holds the
\* outputs of stages A, B and C
C4_Witness ==
    \E r \in 1..MaxRequests :
        /\ RunOver(r)
        /\ Len(sEvents[r]) = 8
        /\ sEvents[r][8].status = "error"
        /\ sEvents[r][2].status = "complete" /\ sEvents[r][2].data # <<>>
        /\ sEvents[r][6].status = "complete"

---------------------------------------------------------------------------
(* Claims about the error taxonomy *)

ErrorKinds == {"validation", "provider-unreachable", "malformed", "internal"}

\* the taxonomy kind a tag of the code stands for: the provider names
\* "perplexity" and "mino" are read as provider-unreachable
KindOfTag(tag) ==
    CASE tag \in {"perplexity", "mino"} -> "provider-unreachable"
      [] tag \in ErrorKinds -> tag
      [] OTHER -> "untagged"

\* the provider answered, and its answer cannot be parsed or breaks the schema
ReplyIsMalformed(x) ==
    \/ /\ x.endpoint = "retrieve"
       /\ x.reply.kind = "notjson" \/ (x.reply.kind = "ok" /\ ~x.reply.array)
    \/ /\ x.endpoint = "reason"
       /\ \/ x.reply.kind = "unparseable"
          \/ x.reply.kind = "json" /\ ~schemaAccepts(x.reply.parsed)

\* the request passes validation and the process is configured, so the
\* provider is called
ProviderIsCalled(x) ==
    \/ /\ x.endpoint = "retrieve"
       /\ x.request.topic # "" /\ x.request.region # "" /\ x.request.timeWindow # ""
       /\ env.perplexityKey
    \/ /\ x.endpoint = "reason"
       /\ x.request.method = "POST" /\ x.request.snippets # <<>>
       /\ env.minoConfigured

\* C9: every error outcome of the retrieval endpoint, the classification
\* endpoint and the streaming pipeline has a message and a kind tag of the
\* taxonomy, and an unparseable or schema-violating provider answer is
\* tagged malformed.
C9_ErrorsCarryKindAndMessage ==
    /\ (apiExchange.endpoint # "none" /\ apiExchange.response.status >= 400) =>
          LET body == apiExchange.response.body
          IN  /\ "error" \in DOMAIN body
              /\ "errorType" \in DOMAIN body
              /\ KindOfTag(body.errorType) \in ErrorKinds
              /\ (ProviderIsCalled(apiExchange) /\ ReplyIsMalformed(apiExchange))
                    => KindOfTag(body.errorType) = "malformed"
    /\ \A r \in 1..MaxRequests : \A i \in 1..Len(sEvents[r]) :
          sEvents[r][i].status = "error" =>
              /\ "message" \in DOMAIN sEvents[r][i]
              /\ "errorType" \in DOMAIN sEvents[r][i]
              /\ KindOfTag(sEvents[r][i].errorType) \in ErrorKinds

---------------------------------------------------------------------------
(* Claims about the two-stage client *)

\* a step in which tab t is handed the result of a completed analysis
Completes(t) == analysis'[t].present /\ analysis'[t] # analysis[t]

currentDistOf(a) == distOf(<<>>, a.result.emotionBars)

clusterSizesOf(a) == clusterMapOf(<<>>, a.result.clusters)

\* C5: the persisted snapshot always equals, in full, the emotion
\* distribution and cluster sizes computed by the run that completed its
\* analysis most recently, over all tabs sharing the store: a completing run
\* overwrites it without merging, and no other step (validation error,
\* retrieval or classification error, cancellation) changes it.
C5_SnapshotIsLastCompletedRun ==
    /\ [](store.kind = "json" => store.snapshot.timestamp = clock)
    /\ [][ IF \E t \in Tabs : Completes(t)
           THEN \E t \in Tabs :
                   /\ Completes(t)
                   /\ analysis'[t].result.timestamp = clock'
                   /\ store'.kind = "json"
                   /\ store'.snapshot.emotionDistribution = currentDistOf(analysis'[t])
                   /\ store'.snapshot.clusters = clusterSizesOf(analysis'[t])
           ELSE store' = store ]_vars

\* a second tab's run has replaced the snapshot of the first tab's run, which
\* had a label the new one lacks, and a failed retry has left it in place
C5_Witness ==
    /\ store.kind = "json"
    /\ \E t, u \in Tabs :
          /\ t # u
          /\ analysis[t].present
          /\ analysis[t].result.timestamp = clock
          /\ store.snapshot.emotionDistribution = currentDistOf(analysis[t])
          /\ analysis[u].present
          /\ analysis[u].result.timestamp < clock
          /\ ~(Keys(currentDistOf(analysis[u])) \subseteq Keys(store.snapshot.emotionDistribution))
          /\ errorState[u].present
          /\ ~loading[u]

\* C6: a run that overlaps no other run computes its volatility and rising
\* narratives against the snapshot that is persisted when its diff starts,
\* which is the one written by the run completed just before it, whichever
\* tab that run belonged to.
C6_DiffAgainstPersistedSnapshot ==
    [][ \A t \in Tabs :
          (/\ Completes(t)
           /\ \E r \in 1..MaxRuns :
                 /\ runs[r].tab = t /\ runs[r].pc = "readReason"
                 /\ runs'[r].pc = "done" /\ ~runs[r].concurrent)
          =>
          LET persisted == readSnapshot(store) IN
          /\ analysis'[t].result.volatility =
                volatilityOf(currentDistOf(analysis'[t]), previousDistOf(persisted))
          /\ analysis'[t].result.risingNarratives =
                risingNarrativesOf(clusterSizesOf(analysis'[t]),
                                   prevClusterMapOf(persisted)) ]_vars

---------------------------------------------------------------------------
(* Inputs of the Dedup Engine harness *)

\* Raw signals as a provider may return them: equal urls, titles equal up to
\* case and punctuation, titles with equal bigram sets, one-character titles,
\* a title that normalizes to nothing, an empty body, an empty url.
SignalPool ==
    { Signal(<<"a", "a">>,        U1, Body),
      Signal(<<"A", "a", "!">>,   U2, Body),
      Signal(<<"a", "a", "a">>,   U3, Body),
      Signal(<<"a", "b">>,        U1, Body),
      Signal(<<"a", "b">>,        U2, Body),
      Signal(<<"a">>,             U3, Body),
      Signal(<<"b">>,             U2, Body),
      Signal(<<"!">>,             U3, Body),
      Signal(<<"a", " ", "b">>,   U3, NoBody),
      Signal(<<"a", "!", "b">>,   U3, Body),
      Signal(<<"b", "a">>,        NoUrl, Body) }

SeqsUpTo(S, n) == UNION {[1..k -> S] : k \in 0..n}

DedupInit ==
    /\ EnvFixed
    /\ StreamIdle
    /\ ApiIdle
    /\ ClientIdle
    /\ CallIdle
    /\ dVariant \in {"snippets", "signals"}
    /\ dIn \in SeqsUpTo(SignalPool, MaxSignals)
    /\ dOut = <<>>
    /\ dOut2 = <<>>
    /\ dpc = "input"

DedupeOnce ==
    /\ dpc = "input"
    /\ dOut' = dedupe(dVariant, dIn)
    /\ dpc' = "once"
    /\ UNCHANGED <<dVariant, dIn, dOut2, env, streamVars, apiExchange, clientVars, call>>

DedupeTwice ==
    /\ dpc = "once"
    /\ dOut2' = dedupe(dVariant, dOut)
    /\ dpc' = "twice"
    /\ UNCHANGED <<dVariant, dIn, dOut, env, streamVars, apiExchange, clientVars, call>>

DedupNext == DedupeOnce \/ DedupeTwice

SpecDedup == DedupInit /\ [][DedupNext]_vars

---------------------------------------------------------------------------
(* C10: dedup is idempotent: applying the dedup function to its own output *)
(* returns exactly that output, for both dedupeSnippets and dedupeSignals. *)
C10_DedupIdempotent == dpc = "twice" => dOut2 = dOut

\* a run in which the first pass dropped a URL duplicate and a near-duplicate
\* and kept two signals, and the second pass has been applied
C10_Witness ==
    /\ dpc = "twice"
    /\ Len(dIn) = 3
    /\ Len(dOut) = 2
    /\ dOut2 = dOut
    /\ \E i \in 1..Len(dIn) :
          /\ normalizeTitle(dIn[i].title) # <<>>
          /\ dIn[i].snippet # <<>> /\ dIn[i].url # <<>>
          /\ \A j \in 1..Len(dOut) : dOut[j].url # dIn[i].url

---------------------------------------------------------------------------
(* Claims about the output of the Dedup Engine *)

RECURSIVE IsSubsequence(_, _)
\* s is t with some elements left out, the others in their order
IsSubsequence(s, t) ==
    IF s = <<>> THEN TRUE
    ELSE IF t = <<>> THEN FALSE
    ELSE IF Head(s) = Head(t) THEN IsSubsequence(Tail(s), Tail(t))
    ELSE IsSubsequence(s, Tail(t))

\* Dice's coefficient of the bigram sets of two normalized titles is at
\* least 0.9 (equal titles score 1)
DiceAtLeastNineTenths(a, b) ==
    \/ a = b
    \/ LET A == bigrams(a)
           B == bigrams(b)
       IN  /\ Cardinality(A) + Cardinality(B) > 0
           /\ 20 * Cardinality(A \cap B) >= 9 * (Cardinality(A) + Cardinality(B))

\* a title without its punctuation, in lower case
WithoutPunctuation(title) ==
    SelectSeq([i \in 1..Len(title) |-> toLowerCase(title[i])], IsWordOrSpace)

\* the two titles differ only in case or punctuation
SameUpToCaseAndPunctuation(s, t) == WithoutPunctuation(s) = WithoutPunctuation(t)

OutputIsDuplicateFree ==
    /\ IsSubsequence(dOut, dIn)
    /\ \A p, q \in 1..Len(dOut) : p < q =>
          /\ dOut[p].url # dOut[q].url
          /\ ~DiceAtLeastNineTenths(normalizeTitle(dOut[p].title),
                                    normalizeTitle(dOut[q].title))

\* C11 (as amended): the dedup output is a subsequence of the input in
\* first-seen order in which no two signals have the same URL and no two
\* have normalized titles with bigram Dice similarity >= 0.9; in particular
\* of two signals whose normalized titles are equal only the first is kept,
\* even if their URLs differ.
C11_OutputSubsequenceNoDuplicates ==
    dpc # "input" =>
       /\ OutputIsDuplicateFree
       /\ \A i, j \in 1..Len(dIn) :
             (i < j /\ normalizeTitle(dIn[i].title) = normalizeTitle(dIn[j].title))
             => ~IsSubsequence(<<dIn[i], dIn[j]>>, dOut) \/ dIn[i] = dIn[j]

\* "Aa!" after "aa" under another URL, and only the first one kept
C11_Witness ==
    /\ dpc = "once"
    /\ Len(dOut) = 2
    /\ \E i, j \in 1..Len(dIn) :
          /\ i < j
          /\ dIn[i].title # dIn[j].title
          /\ normalizeTitle(dIn[i].title) = normalizeTitle(dIn[j].title)
          /\ dIn[i].url # dIn[j].url
          /\ dIn[j].snippet # <<>> /\ dIn[j].url # <<>>
          /\ dOut[1] = dIn[i]
          /\ \A q \in 1..Len(dOut) : dOut[q] # dIn[j]

\* C11 (as stated): as above, and in particular no two signals of the
\* output have titles that differ only in case or punctuation.
C11_NoTwoTitlesUpToCaseAndPunctuation ==
    dpc # "input" =>
       /\ OutputIsDuplicateFree
       /\ \A p, q \in 1..Len(dOut) : p < q =>
             ~SameUpToCaseAndPunctuation(dOut[p].title, dOut[q].title)

\* C12: in every deployment variant the Dedup Engine rejects any signal that
\* lacks a non-empty normalized title, a non-empty body text or a non-empty
\* URL: no signal with an empty body appears in the dedup output.
C12_OutputSignalsAreComplete ==
    dpc # "input" =>
       \A q \in 1..Len(dOut) :
          /\ normalizeTitle(dOut[q].title) # <<>>
          /\ dOut[q].snippet # <<>>
          /\ dOut[q].url # <<>>

---------------------------------------------------------------------------
(* Pure functions on their own: each is called with every argument of a    *)
(* bounded set and the call is recorded.                                   *)

OthersIdle == EnvFixed /\ DedupIdle /\ StreamIdle /\ ApiIdle /\ ClientIdle

OthersUnchanged == UNCHANGED <<dedupVars, env, streamVars, apiExchange, clientVars>>

\* normalized and raw titles over the model's alphabet
TitleChars == {"a", "b", Blank}

Titles == SeqsUpTo(TitleChars, MaxTitleLen)

CallSimilarityScore(a, b) ==
    /\ call = NoCall
    /\ call' = [fn |-> "similarityScore", a |-> a, b |-> b,
                result |-> similarityScore(a, b)]
    /\ OthersUnchanged

SimilarityInit == CallIdle /\ OthersIdle

SimilarityNext == \E a, b \in Titles : CallSimilarityScore(a, b)

SpecSimilarity == SimilarityInit /\ [][SimilarityNext]_vars

\* a JavaScript number kept as num/den is a number of [0, 1]
IsUnitFraction(x) == x.den > 0 /\ 0 <= x.num /\ x.num <= x.den

\* C13: the title similarity function returns 1 for two equal non-empty
\* titles, 0 whenever either argument is the empty string, and otherwise
\* 2*|A n B| / (|A| + |B|) over the two bigram sets, a value of [0, 1] that
\* does not depend on the order of the arguments.
C13_SimilarityIsDiceInUnitInterval ==
    call.fn = "similarityScore" =>
       LET a == call.a
           b == call.b
           r == call.result
           A == bigrams(a)
           B == bigrams(b)
       IN  /\ IsUnitFraction(r)
           /\ (a = b /\ a # <<>>) => r.num = r.den
           /\ (a = <<>> \/ b = <<>>) => r.num = 0
           /\ (a # b /\ a # <<>> /\ b # <<>>) =>
                 r.num * (Cardinality(A) + Cardinality(B))
                    = 2 * Cardinality(A \cap B) * r.den
           /\ r = similarityScore(b, a)

---------------------------------------------------------------------------
(* The domain-exclusion filter on its own *)

HostChunks == {"a.com", "x.com", "X.com", "twitter.com", "reddit.com", "netfli", "www."}

UrlHosts == {<<h>> : h \in HostChunks} \cup {<<g, h>> : g, h \in HostChunks}

UrlPaths == {<<>>, <<"/">>, <<"/", "1">>, <<"/", "x.com", "/", "1">>}

\* urls as a provider returns them: scheme, host, then nothing or a path
Urls == {<<"https://">> \o h \o path : h \in UrlHosts, path \in UrlPaths}

CallIsExcludedSource(url) ==
    /\ call = NoCall
    /\ call' = [fn |-> "isExcludedSource", url |-> url,
                result |-> isExcludedSource(url)]
    /\ OthersUnchanged

FilterInit == CallIdle /\ OthersIdle

FilterNext == \E url \in Urls : CallIsExcludedSource(url)

SpecFilter == FilterInit /\ [][FilterNext]_vars

RECURSIVE UpToSlash(_)
UpToSlash(chunks) ==
    IF chunks = <<>> \/ Head(chunks) = "/" THEN <<>>
    ELSE <<Head(chunks)>> \o UpToSlash(Tail(chunks))

\* the host of a url, in lower case: what stands between the scheme and
\* the first slash
HostOf(url) ==
    LET host == UpToSlash(Tail(url))
    IN  [i \in 1..Len(host) |-> toLowerCase(host[i])]

Blocklist == {"x.com", "twitter.com", "reddit.com"}

\* the host is a blocklisted domain, or its www. subdomain
HostOnBlocklist(url) ==
    LET host == HostOf(url)
    IN  \/ Len(host) = 1 /\ host[1] \in Blocklist
        \/ Len(host) = 2 /\ host[1] = "www." /\ host[2] \in Blocklist

\* C14: the domain-exclusion filter drops a signal if and only if the host
\* of its URL is on the blocklist (x.com, twitter.com, reddit.com).
C14_ExcludedIffHostOnBlocklist ==
    call.fn = "isExcludedSource" => (call.result <=> HostOnBlocklist(call.url))

---------------------------------------------------------------------------
(* The snippet budget on its own *)

\* a text of n characters; with a blank as its k-th character
Text(n) == [i \in 1..n |-> "a"]

TextWithBlank(n, k) == [i \in 1..n |-> IF i = k THEN Blank ELSE "a"]

BudgetTitles == {Text(1), Text(161), TextWithBlank(200, 160)}

BudgetBodies == {Text(1), Text(801), TextWithBlank(900, 800)}

BudgetSignals == {Signal(ti, U1, bo) : ti \in BudgetTitles, bo \in BudgetBodies}

FullSizeSignal == Signal(Text(160), U2, Text(800))

\* lists that reach the cumulative cap: full-size signals, then a mixed tail
BudgetLists ==
    { [i \in 1..n |-> FullSizeSignal] \o tail :
        n \in 0..MaxFill, tail \in SeqsUpTo(BudgetSignals, MaxTail) }

CallEnforceSnippetBudget(snippets) ==
    /\ call = NoCall
    /\ call' = [fn |-> "enforceSnippetBudget", snippets |-> snippets,
                result |-> enforceSnippetBudget(snippets)]
    /\ OthersUnchanged

BudgetInit == CallIdle /\ OthersIdle

BudgetNext == \E snippets \in BudgetLists : CallEnforceSnippetBudget(snippets)

SpecBudget == BudgetInit /\ [][BudgetNext]_vars

\* a signal with the per-field caps applied
Capped(s) ==
    [s EXCEPT !.title = IF Len(@) <= 160 THEN @ ELSE trim(SubSeq(@, 1, 160)),
              !.snippet = IF Len(@) <= 800 THEN @ ELSE trim(SubSeq(@, 1, 800))]

RECURSIVE CharsOf(_)
\* title and body characters of a list of signals, together
CharsOf(list) ==
    IF list = <<>> THEN 0
    ELSE Len(Head(list).title) + Len(Head(list).snippet) + CharsOf(Tail(list))

\* C15: the signals sent to the classification provider are a prefix of the
\* input in original order: signals are included until the first one whose
\* inclusion would push the cumulative count over 12,000, and that signal
\* and every later one are excluded.
C15_SentSignalsArePrefix ==
    call.fn = "enforceSnippetBudget" =>
       LET input == call.snippets
           sent  == call.result
           k     == Len(sent)
       IN  /\ k <= Len(input)
           /\ \A i \in 1..k : sent[i] = Capped(input[i])
           /\ k < Len(input) =>
                 CharsOf(sent) + CharsOf(<<Capped(input[k + 1])>>) > 12000

\* C16: each signal sent to the classification provider has a title of at
\* most 160 characters and a body of at most 800 characters, and the title
\* and body lengths of all sent signals sum to at most 12,000.
C16_SentSignalsWithinCaps ==
    call.fn = "enforceSnippetBudget" =>
       /\ \A i \in 1..Len(call.result) :
             /\ Len(call.result[i].title) <= 160
             /\ Len(call.result[i].snippet) <= 800
       /\ CharsOf(call.result) <= 12000

\* a list with an over-long title and body among the signals sent, and a
\* signal left out because of the cumulative cap
C16_Witness ==
    /\ call.fn = "enforceSnippetBudget"
    /\ Len(call.result) < Len(call.snippets)
    /\ CharsOf(call.result) > 12000 - 960
    /\ \E i \in 1..Len(call.snippets) :
          /\ Len(call.snippets[i].title) > 160
          /\ Len(call.snippets[i].snippet) > 800
          /\ \E j \in 1..Len(call.result) : call.result[j] = Capped(call.snippets[i])

---------------------------------------------------------------------------
(* computeAnalysis on its own: one call on a classifier answer and on what
   localStorage holds under "pmr-last-run" when the memo reads it *)

MaxClusters == 6

\* cluster sizes: none, one, several
ClusterSizes == {0, 1, 2}

ClusterLabelPool ==
    <<"policy", "backlash", "prices", "layoffs", "housing", "transit", "energy">>

Cluster(label, size) == [label |-> label, size |-> size, exampleHeadlines |-> <<>>]

\* mino.clusters: up to MaxClusters clusters of sizes in ClusterSizes; the empty list
\* makes computeAnalysis fall back on the clusters of the items
ClusterLists ==
    LET most == IF MaxClusters < Len(ClusterLabelPool) THEN MaxClusters
                ELSE Len(ClusterLabelPool)
    IN  UNION { { [i \in 1..n |-> Cluster(ClusterLabelPool[i], sz[i])] :
                    sz \in [1..n -> ClusterSizes] } : n \in 0..most }

\* a classifier that names a cluster twice
RepeatedCluster == << Cluster("policy", 1), Cluster("backlash", 2), Cluster("policy", 2) >>

AnalysisMinos ==
    { Parsed(JoyJoyFear.items, c) : c \in ClusterLists \cup {RepeatedCluster} }

\* the answer of an earlier run, which left its snapshot in localStorage
PriorRun == Parsed(FearOnly.items, << Cluster("policy", 1), Cluster("backlash", 2) >>)

StoredItems ==
    { NoItem, CorruptItem,
      StoredSnapshot(computeAnalysis(<<>>, PriorRun, readSnapshot(NoItem), 1).persisted),
      StoredSnapshot(computeAnalysis(<<>>, JoyJoyFear, readSnapshot(NoItem), 1).persisted) }

CallComputeAnalysis(mino, item) ==
    /\ call = NoCall
    /\ call' = [fn |-> "computeAnalysis", snippets |-> ListPlain, mino |-> mino,
                stored |-> item,
                analysis |-> computeAnalysis(ListPlain, mino, readSnapshot(item), 2)]
    /\ OthersUnchanged

AnalysisInit == call = NoCall /\ OthersIdle

AnalysisNext == \E mino \in AnalysisMinos, item \in StoredItems : CallComputeAnalysis(mino, item)

SpecAnalysis == AnalysisInit /\ [][AnalysisNext]_vars

---------------------------------------------------------------------------
(* Claims about the Snapshot Diff Engine *)

Analysed == call.fn = "computeAnalysis"

RisingOf(c) == c.analysis.result.risingNarratives

\* the cluster-size map of the run, as it is persisted
SizesOf(c) == c.analysis.persisted.clusters

NoBaseline(c) == c.stored \in {NoItem, CorruptItem}

FirstN(s, n) == SubSeq(s, 1, IF Len(s) < n THEN Len(s) ELSE n)

AsRising(m) == [i \in 1..Len(m) |-> [label |-> m[i].key, delta |-> m[i].value]]

PreviousSizesOf(c) == prevClusterMapOf(readSnapshot(c.stored))

DeltaOf(c, label) == Lookup(SizesOf(c), label) - Lookup(PreviousSizesOf(c), label)

\* where the run's cluster list first has the label
PlaceOf(c, label) ==
    LET clusters == c.analysis.result.clusters
    IN  CHOOSE i \in 1..Len(clusters) :
            /\ clusters[i].label = label
            /\ \A j \in 1..(i - 1) : clusters[j].label # label

\* C19: the rising narratives are labels of the current run, each once, with
\* delta = current size - previous size (0 when the snapshot lacks the label),
\* which is positive; there are at most 5; they are in descending order of
\* delta, equal deltas in the order the run's cluster list has them; and a
\* label of the run with a positive delta is left out only when five entries
\* with deltas at least as large are in.
C19_RisingAreTopFivePositiveDeltas ==
    Analysed =>
        LET rising == RisingOf(call)
            labels == {rising[i].label : i \in 1..Len(rising)}
        IN  /\ Len(rising) <= 5
            /\ \A i \in 1..Len(rising) :
                  /\ rising[i].label \in Keys(SizesOf(call))
                  /\ rising[i].delta = DeltaOf(call, rising[i].label)
                  /\ rising[i].delta > 0
            /\ \A i, j \in 1..Len(rising) :
                  i < j =>
                    /\ rising[i].label # rising[j].label
                    /\ rising[i].delta >= rising[j].delta
                    /\ rising[i].delta = rising[j].delta =>
                          PlaceOf(call, rising[i].label) < PlaceOf(call, rising[j].label)
            /\ \A l \in Keys(SizesOf(call)) \ labels :
                  DeltaOf(call, l) > 0 =>
                    /\ Len(rising) = 5
                    /\ \A i \in 1..5 : rising[i].delta >= DeltaOf(call, l)

\* against a stored snapshot: five rising narratives, two of them equal, one of
\* a label the snapshot has, and a label of unchanged size left out
C19_Witness ==
    /\ Analysed
    /\ call.stored.kind = "json"
    /\ Len(RisingOf(call)) = 5
    /\ \E i \in 1..4 : RisingOf(call)[i].delta = RisingOf(call)[i + 1].delta
    /\ \E i \in 1..4 : RisingOf(call)[i].delta > RisingOf(call)[i + 1].delta
    /\ \E i \in 1..5 : Lookup(PreviousSizesOf(call), RisingOf(call)[i].label) > 0
    /\ \E l \in Keys(SizesOf(call)) : Lookup(SizesOf(call), l) > 0 /\ DeltaOf(call, l) = 0

---------------------------------------------------------------------------
(* The volatility of two emotion distributions on its own *)

MaxCount == 3

Repeat(x, n) == [i \in 1..n |-> x]

ItemOf(emotion) == Item(0, emotion, "cost", "prices", "policy")

\* classifier answers with at most one joy, one fear and one hope item and up to
\* MaxCount anger items
EmotionRuns ==
    { Repeat(ItemOf("joy"), a) \o Repeat(ItemOf("fear"), b)
        \o Repeat(ItemOf("anger"), c) \o Repeat(ItemOf("hope"), d) :
          a \in 0..1, b \in 0..1, c \in 0..MaxCount, d \in 0..1 }

\* the currentDist of those runs, which is also what they persist
Distributions == { distOf(<<>>, emotionBarsOf(items)) : items \in EmotionRuns }

CallVolatility(currentDist, previousDist) ==
    /\ call = NoCall
    /\ call' = [fn |-> "volatility", currentDist |-> currentDist,
                previousDist |-> previousDist,
                volatility |-> volatilityOf(currentDist, previousDist)]
    /\ OthersUnchanged

VolatilityInit == call = NoCall /\ OthersIdle

VolatilityNext ==
    \E currentDist, previousDist \in Distributions :
        CallVolatility(currentDist, previousDist)

SpecVolatility == VolatilityInit /\ [][VolatilityNext]_vars

\* C18: the volatility of a current and a previous emotion distribution is an
\* integer from 0 to 100, is the same when the two distributions are swapped,
\* and is 0 when they are equal.
C18_VolatilityBoundedSymmetricZeroOnEqual ==
    call.fn = "volatility" =>
        /\ call.volatility \in 0..100
        /\ call.volatility = volatilityOf(call.previousDist, call.currentDist)
        /\ call.currentDist = call.previousDist => call.volatility = 0

---------------------------------------------------------------------------
(* The EmotionStats of a classifier answer on their own *)

MaxJoy == 23
MaxFear == 17
MaxMixed == 2

\* emotions as the classifier may spell them
MixedItems == { ItemOf(e) : e \in {"joy", "Joy ", "fear", " fear", "", " "} }

\* answers of up to MaxJoy joy items followed by up to MaxFear fear items, and
\* short answers in every spelling
EmotionAnswers ==
    { Repeat(ItemOf("joy"), a) \o Repeat(ItemOf("fear"), b) :
        a \in 0..MaxJoy, b \in 0..MaxFear }
    \cup SeqsUpTo(MixedItems, MaxMixed)

CallEmotionBars(items) ==
    /\ call = NoCall
    /\ call' = [fn |-> "emotionBars", items |-> items,
                emotionBars |-> emotionBarsOf(items),
                currentDist |-> distOf(<<>>, emotionBarsOf(items))]
    /\ OthersUnchanged

EmotionInit == call = NoCall /\ OthersIdle

EmotionNext == \E items \in EmotionAnswers : CallEmotionBars(items)

SpecEmotion == EmotionInit /\ [][EmotionNext]_vars

\* the label an item is counted under
LabelOf(item) == IF item.emotion = "" THEN "neutral" ELSE normalizeLabel(item.emotion)

\* x / y rounded to the nearest integer, a half going up (x >= 0, y > 0)
RoundedQuotient(x, y) == (2 * x + y) \div (2 * y)

\* one entry per label, each with the number of items under it, most frequent first
CountedPerLabel(items, bars) ==
    /\ {bars[i].emotion : i \in 1..Len(bars)} = {LabelOf(items[i]) : i \in 1..Len(items)}
    /\ \A i, j \in 1..Len(bars) :
          i < j => bars[i].emotion # bars[j].emotion /\ bars[i].count >= bars[j].count
    /\ \A i \in 1..Len(bars) :
          bars[i].count =
              Cardinality({k \in 1..Len(items) : LabelOf(items[k]) = bars[i].emotion})

\* C20: the EmotionStats have one entry per distinct trimmed, lower-cased emotion
\* label ("neutral" for an empty emotion), with count the number of items under
\* the label and percentage = round(100 * count / max(1, number of items)), in
\* descending order of count.
C20_EmotionStatsCountAndPercentage ==
    call.fn = "emotionBars" =>
        /\ CountedPerLabel(call.items, call.emotionBars)
        /\ \A i \in 1..Len(call.emotionBars) :
              call.emotionBars[i].percentage =
                  RoundedQuotient(100 * call.emotionBars[i].count,
                                  IF Len(call.items) > 1 THEN Len(call.items) ELSE 1)

RECURSIVE SumOfPercentages(_)
SumOfPercentages(bars) ==
    IF bars = <<>> THEN 0 ELSE Head(bars).percentage + SumOfPercentages(Tail(bars))

\* C21: the current emotion distribution, which is what the diff gets and what
\* the snapshot keeps, has one fraction per emotion entry, the entry's
\* percentage over 100; every fraction is from 0 to 1 and the fractions sum to
\* at most 1 (the percentages to at most 100).
C21_DistributionSumsToAtMostOne ==
    call.fn = "emotionBars" =>
        /\ keysOf(call.currentDist) =
              [i \in 1..Len(call.emotionBars) |-> call.emotionBars[i].emotion]
        /\ \A i \in 1..Len(call.currentDist) :
              /\ call.currentDist[i].value = Divide(call.emotionBars[i].percentage, 100)
              /\ ~LessThan(One, call.currentDist[i].value)
        /\ SumOfPercentages(call.emotionBars) <= 100

---------------------------------------------------------------------------
(* computeAnalysis on classifier answers of several items, with the signals
   their indices point into *)

MaxItems == 4

\* five signals, the third with the title of the first
HeadlineSignals ==
    << Signal(<<"a">>, U1, Body), Signal(<<"b">>, U2, Body),
       Signal(<<"a">>, U3, Body), Signal(<<"c">>, U1, Body),
       Signal(<<"d">>, U2, Body) >>

\* items of one cluster at every index, one without a cluster whose index is out
\* of range, and one without a cluster and a narrative
ClusterItems ==
    { Item(0, "joy", "cost", "prices", "policy"),
      Item(1, "Joy ", "cost", "prices", "policy"),
      Item(2, "fear", "", "prices", "policy"),
      Item(3, "", "jobs", "prices", "policy"),
      Item(4, "fear", "jobs", "prices", "policy"),
      Item(7, "joy", "cost", "layoffs", " "),
      Item(0, "fear", "jobs", " ", "") }

\* cluster lists of the provider's own making
SuppliedClusters ==
    { << [label |-> "policy", size |-> 2, exampleHeadlines |-> << <<"a">>, <<"b">> >>] >>,
      << [label |-> "policy", size |-> 4,
          exampleHeadlines |-> << <<"a">>, <<"b">>, <<"c">>, <<"d">> >>] >>,
      << [label |-> "backlash", size |-> 1, exampleHeadlines |-> <<>>],
         [label |-> "policy", size |-> 2, exampleHeadlines |-> << <<"a">>, <<"a">> >>] >> }

ItemAnswers ==
    { Parsed(items, <<>>) : items \in SeqsUpTo(ClusterItems, MaxItems) }
    \cup { Parsed(JoyJoyFear.items, c) : c \in SuppliedClusters }

CallComputeAnalysisOf(mino) ==
    /\ call = NoCall
    /\ call' = [fn |-> "computeAnalysis", snippets |-> HeadlineSignals, mino |-> mino,
                stored |-> NoItem,
                analysis |-> computeAnalysis(HeadlineSignals, mino, readSnapshot(NoItem), 2)]
    /\ OthersUnchanged

ItemsInit == call = NoCall /\ OthersIdle

\* one call: nothing is enabled after it
ItemsNext == call = NoCall /\ \E mino \in ItemAnswers : CallComputeAnalysisOf(mino)

SpecItems == ItemsInit /\ [][ItemsNext]_vars

---------------------------------------------------------------------------
(* Claims about the Aggregation Engine *)

\* the label an item is grouped under
GroupLabel(item) ==
    IF trimLabel(item.cluster) # "" THEN trimLabel(item.cluster)
    ELSE IF trimLabel(item.narrative) # "" THEN trimLabel(item.narrative)
    ELSE "general narrative"

Positions(s) == [i \in 1..Len(s) |-> i]

\* the titles the items of a group find at their indices, in item order
TitlesFound(items, snippets, label) ==
    LET hits == SelectSeq(Positions(items),
                          LAMBDA k : /\ GroupLabel(items[k]) = label
                                     /\ items[k].index + 1 \in 1..Len(snippets))
    IN  [j \in 1..Len(hits) |-> snippets[items[hits[j]].index + 1].title]

\* s without the repetitions of earlier elements
Distinct(s) ==
    LET firsts == SelectSeq(Positions(s), LAMBDA j : \A i \in 1..(j - 1) : s[i] # s[j])
    IN  [j \in 1..Len(firsts) |-> s[firsts[j]]]

Derived(c) == c.fn = "computeAnalysis" /\ Len(c.mino.clusters) = 0

\* C22: when the classifier's answer has no cluster list, the clusters of the
\* result are the groups of the items by cluster (else narrative, else "general
\* narrative"), one cluster per group: its size is the number of the group's
\* items, its example headlines are the first three distinct titles the
\* group's items find at their indices (an index out of range finds none), the
\* clusters are in descending order of size, and the dominant narrative is the
\* label of the first.
C22_ClustersDerivedFromItems ==
    Derived(call) =>
        LET items    == call.mino.items
            clusters == call.analysis.result.clusters
        IN  /\ {clusters[i].label : i \in 1..Len(clusters)}
                  = {GroupLabel(items[k]) : k \in 1..Len(items)}
            /\ \A i, j \in 1..Len(clusters) :
                  i < j => /\ clusters[i].label # clusters[j].label
                           /\ clusters[i].size >= clusters[j].size
            /\ \A i \in 1..Len(clusters) :
                  /\ clusters[i].size =
                        Cardinality({k \in 1..Len(items) :
                                        GroupLabel(items[k]) = clusters[i].label})
                  /\ clusters[i].exampleHeadlines =
                        FirstN(Distinct(TitlesFound(items, call.snippets,
                                                    clusters[i].label)), 3)
            /\ call.analysis.result.dominantNarrative =
                  IF clusters = <<>> THEN "undefined" ELSE clusters[1].label

\* four items of one cluster with four different titles: three headlines kept
C22_Witness ==
    /\ Derived(call)
    /\ Len(call.analysis.result.clusters) = 1
    /\ call.analysis.result.clusters[1].size = 4
    /\ call.analysis.result.clusters[1].exampleHeadlines = << <<"a">>, <<"b">>, <<"c">> >>
    /\ call.analysis.result.dominantNarrative = "policy"

\* C23: every cluster of an analysis result, derived from the items or supplied
\* by the classifier, has at most 3 example headlines, no two of them equal.
C23_AtMostThreeDistinctHeadlines ==
    call.fn = "computeAnalysis" =>
        \A i \in 1..Len(call.analysis.result.clusters) :
            LET headlines == call.analysis.result.clusters[i].exampleHeadlines
            IN  /\ Len(headlines) <= 3
                /\ \A j, k \in 1..Len(headlines) : j < k => headlines[j] # headlines[k]

RECURSIVE SumOf(_, _)
\* the sum of the field of the rows
SumOf(rows, field) ==
    IF rows = <<>> THEN 0 ELSE Head(rows)[field] + SumOf(Tail(rows), field)

---------------------------------------------------------------------------
(* The recency score of a publication date on its own *)

MaxAge == 32

\* Date.now(): one millisecond into day MaxAge
Clock == getTime(DateAt(MaxAge, 1))

\* dates from MaxAge days back to a day ahead of the clock: a whole number of
\* days old, a millisecond more, a millisecond less and about half a day less
DatesOfSignals ==
    { DateAt(day, ms) : day \in 0..(MaxAge + 1), ms \in {0, 1, 2, 43200000} }

PublishedAt == {EmptyDate, Unparseable} \cup DatesOfSignals

CallScoreRecency(publishedAt) ==
    /\ call = NoCall
    /\ call' = [fn |-> "scoreRecency", publishedAt |-> publishedAt,
                recency |-> scoreRecency(daysSince(publishedAt, Clock))]
    /\ OthersUnchanged

RecencyInit == call = NoCall /\ OthersIdle

RecencyNext == call = NoCall /\ \E publishedAt \in PublishedAt : CallScoreRecency(publishedAt)

SpecRecency == RecencyInit /\ [][RecencyNext]_vars

\* the recency score of every date of the pool
RecencyOf == [date \in DatesOfSignals |-> scoreRecency(daysSince(date, Clock))]

\* the age of a date is at most n days, in whole milliseconds
AtMostDaysOld(date, n) ==
    BigCompare(Clock, BigAdd(getTime(date), getTime(DateAt(n, 0)))) <= 0

\* C24: scoreRecency gives 35 for a missing or unparseable date and, for a date
\* d >= 0 days old, 95 if d <= 1, 85 if d <= 3, 70 if d <= 7, 58 if d <= 14, 45
\* if d <= 30 and 30 otherwise (an age on an edge gets the more recent bucket);
\* no older date has a higher score.
C24_RecencyBuckets ==
    call.fn = "scoreRecency" =>
        LET date == call.publishedAt IN
        IF date \notin DatesOfSignals THEN call.recency = 35
        ELSE /\ call.recency =
                    IF AtMostDaysOld(date, 1) THEN 95
                    ELSE IF AtMostDaysOld(date, 3) THEN 85
                    ELSE IF AtMostDaysOld(date, 7) THEN 70
                    ELSE IF AtMostDaysOld(date, 14) THEN 58
                    ELSE IF AtMostDaysOld(date, 30) THEN 45
                    ELSE 30
             /\ \A older \in DatesOfSignals :
                    BigCompare(getTime(older), getTime(date)) <= 0
                        => RecencyOf[older] <= call.recency

\* a date exactly seven days old is scored 70
C24_Witness ==
    /\ call.fn = "scoreRecency"
    /\ call.publishedAt = DateAt(MaxAge - 7, 1)
    /\ call.recency = 70

---------------------------------------------------------------------------
(* The suggestions built from a signal set *)

MaxSources == 6

Dated(signal, publishedAt) ==
    [title |-> signal.title, url |-> signal.url, snippet |-> signal.snippet,
     publishedAt |-> publishedAt]

\* new URL(url).hostname.replace(/^www\./, ""), "unknown" when the url does
\* not parse
getHostname(url) ==
    IF url = NoUrl THEN <<"unknown">>
    ELSE LET host == UpToSlash(Tail(url))
             hostname == [i \in 1..Len(host) |-> toLowerCase(host[i])]
         IN  IF hostname # <<>> /\ Head(hostname) = "www." THEN Tail(hostname)
             ELSE hostname

\* the signals of a suggestion (confidence, its label, recency, diversity) for
\* each of the first four snippets; title, summary and the relevance score,
\* which read the topic, are not modelled
buildSuggestions(snippets) ==
    LET uniqueDomains == { getHostname(snippets[i].url) : i \in 1..Len(snippets) }
        diversityScore == scoreDiversity(Cardinality(uniqueDomains))
        shown == IF Len(snippets) < 4 THEN Len(snippets) ELSE 4
    IN  [index \in 1..shown |->
            LET recency    == scoreRecency(daysSince(snippets[index].publishedAt, Clock))
                confidence == scoreConfidence(Len(snippets), diversityScore, recency)
            IN  [confidence |-> confidence,
                 confidenceLabel |-> confidenceLabel(confidence),
                 recency |-> recency,
                 diversity |-> diversityScore]]

SourceUrls ==
    << <<"https://", "a.com", "/", "1">>, <<"https://", "b.org", "/", "1">>,
       <<"https://", "www.", "c.net", "/">>, <<"https://", "d.io">>,
       <<"https://", "E.dev", "/", "1">>, <<"https://", "www.", "a.com", "/", "2">> >>

\* no date, one that does not parse, and dates 0, 2, 5, 7, 10, 20 and 31 days old
SourceDates ==
    << EmptyDate, DateAt(MaxAge, 1), DateAt(MaxAge - 2, 1), DateAt(MaxAge - 5, 1),
       DateAt(MaxAge - 7, 1), DateAt(MaxAge - 10, 1), DateAt(MaxAge - 20, 1),
       DateAt(MaxAge - 31, 1), Unparseable >>

\* n signals over the first h urls, dated from the d-th date on
SignalSet(n, h, d) ==
    [i \in 1..n |->
        Dated(Signal(<<"t">>, SourceUrls[((i - 1) % h) + 1], Body),
              SourceDates[((d + i - 2) % Len(SourceDates)) + 1])]

SignalSets ==
    { SignalSet(n, h, d) : n \in 1..MaxSources, h \in 1..Len(SourceUrls),
                           d \in 1..Len(SourceDates) }

CallBuildSuggestions(snippets) ==
    /\ call = NoCall
    /\ call' = [fn |-> "buildSuggestions", snippets |-> snippets,
                suggestions |-> buildSuggestions(snippets)]
    /\ OthersUnchanged

SuggestionsInit == call = NoCall /\ OthersIdle

SuggestionsNext ==
    call = NoCall /\ \E snippets \in SignalSets : CallBuildSuggestions(snippets)

SpecSuggestions == SuggestionsInit /\ [][SuggestionsNext]_vars

\* C25: the confidence of every suggestion built from a signal set is an
\* integer from 0 to 100, and its label is "High" exactly when the confidence
\* is at least 80, "Medium" exactly when it is at least 60 and below 80, and
\* "Early signal" otherwise.
C25_ConfidenceAndLabel ==
    call.fn = "buildSuggestions" =>
        \A i \in 1..Len(call.suggestions) :
            LET s == call.suggestions[i] IN
            /\ s.confidence \in 0..100
            /\ s.confidenceLabel \in {"High", "Medium", "Early signal"}
            /\ s.confidenceLabel = "High" <=> s.confidence >= 80
            /\ s.confidenceLabel = "Medium" <=> (s.confidence >= 60 /\ s.confidence < 80)
            /\ s.confidenceLabel = "Early signal" <=> s.confidence < 60

\* one signal set gives a suggestion of confidence 80, labelled High, and one
\* below 80, labelled Medium
C25_Witness ==
    /\ call.fn = "buildSuggestions"
    /\ \E i, j \in 1..Len(call.suggestions) :
          /\ call.suggestions[i].confidence = 80
          /\ call.suggestions[i].confidenceLabel = "High"
          /\ call.suggestions[j].confidence \in 60..79
          /\ call.suggestions[j].confidenceLabel = "Medium"

---------------------------------------------------------------------------
(* A retrieved signal set on its way to the classifier and back: the client
   posts retrieveData.snippets, the endpoint puts constrainedSnippets into the
   prompt, and the client resolves the indices of the answer in
   retrieveData.snippets *)

\* the headlines computeAnalysis finds for one item of the given index
headlinesAt(index, snippets) ==
    clusterFold(<<>>, <<Item(index, "joy", "cost", "prices", "policy")>>, snippets)[1].exampleHeadlines

ClassifyRetrieved(snippets) ==
    LET constrainedSnippets == enforceSnippetBudget(snippets)
    IN  /\ call = NoCall
        /\ call' = [fn |-> "classifyRetrieved",
                    sent |-> constrainedSnippets,
                    resolvedIn |-> snippets,
                    headlines |-> [i \in 1..Len(constrainedSnippets) |->
                                      headlinesAt(i - 1, snippets)]]
        /\ OthersUnchanged

RoundTripInit == call = NoCall /\ OthersIdle

RoundTripNext == call = NoCall /\ \E snippets \in BudgetLists : ClassifyRetrieved(snippets)

SpecRoundTrip == RoundTripInit /\ [][RoundTripNext]_vars

\* C26: the sequence in which the client resolves an item's index has, at every
\* position of the sequence sent to the classifier, the signal that was sent
\* there (with the caps of the budget applied), so the headline found for an
\* index is the title of the signal the classifier saw at that index.
C26_IndexResolvedInSentSequence ==
    call.fn = "classifyRetrieved" =>
        \A i \in 1..Len(call.sent) :
            /\ i <= Len(call.resolvedIn)
            /\ call.sent[i] = Capped(call.resolvedIn[i])
            /\ \E h \in 1..Len(call.headlines[i]) :
                  truncate(call.headlines[i][h], MAX_TITLE_CHARS) = call.sent[i].title

---------------------------------------------------------------------------
(* The classification endpoint on signal sets that reach the budget *)

\* POST requests with no signals and with the lists of the budget harness
BudgetRequests ==
    { [method |-> "POST", snippets |-> s] : s \in {<<>>} \cup BudgetLists }

ReasonBudgetInit == EnvFixed /\ ApiIdle /\ CallIdle /\ DedupIdle /\ StreamIdle /\ ClientIdle

ReasonBudgetNext ==
    ApiIdle /\ \E req \in BudgetRequests :
                  ReasonRequest(req, [kind |-> "json", parsed |-> JoyJoyFear])

SpecReasonBudget == ReasonBudgetInit /\ [][ReasonBudgetNext]_vars

BudgetExceeded == Json(400, [error |-> "Snippet budget exceeded.", errorType |-> "validation"])

\* C27: for a request with a non-empty list of signals the budget step returns
\* a non-empty list, which starts with the first signal under its caps, and the
\* endpoint does not answer "Snippet budget exceeded".
C27_BudgetNeverEmptiesNonEmptyList ==
    (apiExchange.endpoint = "reason" /\ apiExchange.request.snippets # <<>>) =>
        LET constrainedSnippets == enforceSnippetBudget(apiExchange.request.snippets)
        IN  /\ constrainedSnippets # <<>>
            /\ constrainedSnippets[1] = Capped(apiExchange.request.snippets[1])
            /\ apiExchange.response # BudgetExceeded
            /\ apiExchange.response.status = 200

\* a request whose first signal is over both caps is classified: the signal
\* goes out with the 960 characters the caps leave it
C27_Witness ==
    /\ apiExchange.endpoint = "reason"
    /\ apiExchange.request.snippets # <<>>
    /\ Len(apiExchange.request.snippets[1].title) > 160
    /\ Len(apiExchange.request.snippets[1].snippet) > 800
    /\ CharsOf(<<enforceSnippetBudget(apiExchange.request.snippets)[1]>>) = 960
    /\ apiExchange.response.status = 200

---------------------------------------------------------------------------
(* The loading flag and the error state of the two-stage client *)

\* run r was started, has not ended and has not been cancelled
Uncancelled(r) == InFlight(runs[r]) /\ ~runs[r].aborted

C29_NeverErrorAndAnalysis ==
    \A t \in Tabs : ~(errorState[t].present /\ analysis[t].present)

=============================================================================
